---- MODULE Spec2Model ----
(***************************************************************************)
(* Verification model of the nolossia photo-library merge core:            *)
(*   - merge execution (execute_merge / safe_move) and the manifest-driven *)
(*     undo engine (prepare_undo_plan / execute_undo) over a filesystem,   *)
(*   - duplicate clustering (group_duplicates) and master selection        *)
(*     (select_master).                                                    *)
(* A path is a record [dir, stem, sfx]: dir is the sequence of directory   *)
(* segments, stem the file name without decoration, sfx the sequence of    *)
(* "-<token>" decorations appended before the extension.                   *)
(***************************************************************************)
EXTENDS Integers, Sequences, FiniteSets, TLC

VARIABLES
    fs,             \* files on disk: path -> content
    dirs,           \* directories on disk
    st_dev,         \* device id of each top-level root
    plan,           \* MergePlan.actions (execute_merge rewrites action.dst)
    mstatus,        \* execute_merge: "idle" | "running" | "done" | "failed"
    mi,             \* index of the plan action execute_merge is at
    merr,           \* why execute_merge raised
    renamed_paths,  \* execute_merge's returned collision renames
    manifest,       \* artifacts/source_manifest.json
    undo_plan,      \* the dict returned by prepare_undo_plan
    ustatus,        \* undo: "none" | "prepared" | "running" | "finished" | "input_error" | "safety_error"
    ui,             \* index of the undo entry execute_undo is at
    results,        \* execute_undo's results list
    summaries,      \* summaries returned by completed execute_undo calls
    prepares,       \* number of prepare_undo_plan calls made
    envWrites,      \* files written by something other than the program
    files,          \* group_duplicates input list
    sensitivity,    \* group_duplicates sensitivity
    uf,             \* UnionFind (parent, rank)
    cphase,         \* clustering: "input" | "exact" | "near" | "done"
    clusters,       \* clusters returned by group_duplicates
    cluster,        \* select_master input (member list)
    master,         \* select_master result
    call_args,      \* arguments of the single function call under study
    call_ret        \* what that call returned or raised

fsVars == <<fs, dirs, st_dev, plan, mstatus, mi, merr, renamed_paths, manifest,
            undo_plan, ustatus, ui, results, summaries, prepares, envWrites>>
clVars == <<files, sensitivity, uf, cphase, clusters>>
smVars == <<cluster, master>>
fnVars == <<call_args, call_ret>>
vars == <<fsVars, clVars, smVars, fnVars>>

----------------------------------------------------------------------------
(* Bounds of the explored universe *)
MaxMoves == 2
MaxEnv == 1
MaxUndoRuns == 2

(* Program constants *)
MaxNumbered == 999

Contents == {"x", "y"}
None == ""

\* compute_sha256 of a file's bytes (injective on contents)
Sha == [x |-> "hx", y |-> "hy", z |-> "hz"]
\* the first 12 hex characters of a digest; (src_hash or "conflict")[:12]
Short12(h) == IF h = None THEN "conflict"
              ELSE CASE h = "hx" -> "hx12" [] h = "hy" -> "hy12" [] OTHER -> "hz12"

----------------------------------------------------------------------------
(* Paths *)
NoPath == [dir |-> <<>>, stem |-> "", sfx |-> <<>>]
Path(d, s) == [dir |-> d, stem |-> s, sfx |-> <<>>]
dirname(p) == p.dir
join(d, p) == [p EXCEPT !.dir = d]
WithSuffix(p, tok) == [p EXCEPT !.sfx = Append(@, tok)]
exists(fsys, p) == p \in DOMAIN fsys
compute_sha256(fsys, p) == Sha[fsys[p]]

IsPrefix(a, b) == Len(a) <= Len(b) /\ SubSeq(b, 1, Len(a)) = a
Front(s) == SubSeq(s, 1, Len(s) - 1)
Last(s) == s[Len(s)]

SrcRootNames == <<"src1", "src2", "src3", "src4">>
SrcPath(i) == Path(<<SrcRootNames[i]>>, "a")
LibRoot == <<"lib">>
ChronDir == <<"lib", "2024", "2024-01">>
QuarantineDir == <<"lib", "QUARANTINE_EXACT">>
DstChoices == {Path(ChronDir, "a"), Path(QuarantineDir, "a")}

\* all ancestors of a directory, the directory included (os.makedirs)
Ancestors(d) == {SubSeq(d, 1, k) : k \in 1..Len(d)}

ensure_directory(ds, d) == ds \cup Ancestors(d)

\* path_violation_message: the target escapes the root (no symlinks exist here)
path_violation(target, root) == ~IsPrefix(root, target)

----------------------------------------------------------------------------
\* a safe_move that moves onto the destination whatever it holds
safe_move_clobber(fsys, src, dst, allowed_root) ==
    IF ~exists(fsys, src) THEN [raised |-> TRUE, target |-> dst, fs |-> fsys]
    ELSE [raised |-> FALSE, target |-> dst,
          fs |-> [p \in (DOMAIN fsys \ {src}) \cup {dst} |->
                    IF p = dst THEN fsys[src] ELSE fsys[p]]]

\* a safe_move that stores onto the suffixed name even when it is taken
safe_move_retake_suffixed(fsys, src, dst, allowed_root) ==
    LET suffixed_dst == WithSuffix(dst, compute_sha256(fsys, src))
        target == IF exists(fsys, dst) /\ compute_sha256(fsys, src) # compute_sha256(fsys, dst)
                  THEN suffixed_dst ELSE dst
    IN  IF path_violation(dirname(dst), allowed_root) \/ ~exists(fsys, src)
        THEN [raised |-> TRUE, target |-> dst, fs |-> fsys]
        ELSE [raised |-> FALSE, target |-> target,
              fs |-> [p \in (DOMAIN fsys \ {src}) \cup {target} |->
                        IF p = target THEN fsys[src] ELSE fsys[p]]]

(* utils.safe_move: returns [raised, target, fs] *)
safe_move(fsys, src, dst, allowed_root) ==
    LET src_hash == compute_sha256(fsys, src)
        suffixed_dst == WithSuffix(dst, src_hash)
        moved(target) == [p \in (DOMAIN fsys \ {src}) \cup {target} |->
                            IF p = target THEN fsys[src] ELSE fsys[p]]
        fail == [raised |-> TRUE, target |-> dst, fs |-> fsys]
    IN  IF path_violation(dirname(dst), allowed_root) THEN fail
        ELSE IF ~exists(fsys, src) THEN fail
        ELSE IF exists(fsys, dst)
             THEN IF src_hash # compute_sha256(fsys, dst)
                  THEN IF exists(fsys, suffixed_dst) THEN fail
                       ELSE [raised |-> FALSE, target |-> suffixed_dst,
                             fs |-> moved(suffixed_dst)]
                  ELSE [raised |-> FALSE, target |-> dst, fs |-> moved(dst)]
             ELSE [raised |-> FALSE, target |-> dst, fs |-> moved(dst)]

----------------------------------------------------------------------------
(* Merge plan actions (models/actions.py) *)
CreateFolderAction(d) ==
    [type |-> "CREATE_FOLDER", path |-> d, src |-> NoPath, dst |-> NoPath,
     sha256 |-> None, size |-> 0]
MoveAction(src, dst, sha, size) ==
    [type |-> IF dirname(dst) = QuarantineDir THEN "MOVE_TO_QUARANTINE_EXACT"
              ELSE "MOVE_MASTER",
     path |-> <<>>, src |-> src, dst |-> dst, sha256 |-> sha, size |-> size]
IsMove(a) == a.type \in {"MOVE_MASTER", "MOVE_TO_QUARANTINE_EXACT"}

\* ascending string order of the path segments in use
SegOrder == <<"2024", "2024-01", "QUARANTINE_EXACT", "REVIEW", "UNDO_CONFLICTS",
              "lib", "src1", "src2", "src3", "src4">>
SegRank(s) == IF \E k \in 1..Len(SegOrder) : SegOrder[k] = s
              THEN CHOOSE k \in 1..Len(SegOrder) : SegOrder[k] = s
              ELSE Len(SegOrder) + 1
RECURSIVE SeqLess(_, _)
SeqLess(a, b) ==
    IF a = <<>> THEN b # <<>>
    ELSE IF b = <<>> THEN FALSE
    ELSE IF SegRank(a[1]) # SegRank(b[1]) THEN SegRank(a[1]) < SegRank(b[1])
    ELSE SeqLess(Tail(a), Tail(b))
PathLess(p, q) ==
    IF p.dir # q.dir THEN SeqLess(p.dir, q.dir) ELSE Len(p.sfx) < Len(q.sfx)
\* sort key (original_path, new_path)
EntryLess(e, f) ==
    IF e.original_path # f.original_path
    THEN PathLess(e.original_path, f.original_path)
    ELSE PathLess(e.new_path, f.new_path)

RECURSIVE InsertSorted(_, _)
InsertSorted(e, s) ==
    IF s = <<>> THEN <<e>>
    ELSE IF EntryLess(e, s[1]) THEN <<e>> \o s
    ELSE <<s[1]>> \o InsertSorted(e, Tail(s))
RECURSIVE SortEntries(_)
SortEntries(s) ==
    IF s = <<>> THEN <<>>
    ELSE InsertSorted(s[Len(s)], SortEntries(Front(s)))

\* reporting._source_manifest_entries
source_manifest_entries(actions) ==
    LET moves == SelectSeq(actions, IsMove)
        raw == [k \in 1..Len(moves) |->
                  [original_path |-> moves[k].src,
                   original_folder |-> dirname(moves[k].src),
                   new_path |-> moves[k].dst,
                   hash |-> moves[k].sha256]]
    IN  SortEntries(raw)

\* reporting._manifest_batch_id: digest of the entries' text
manifest_batch_id(entries) ==
    ToString([k \in 1..Len(entries) |->
                <<entries[k].original_path, entries[k].new_path, entries[k].hash>>])

\* reporting.write_source_manifest
write_source_manifest(actions) ==
    LET entries == source_manifest_entries(actions)
    IN  [present |-> TRUE, form |-> "dict", batch_id |-> manifest_batch_id(entries),
         entries |-> entries]

\* form: what json.load gives for the file: "dict" (entries a list), "invalid_json",
\* "not_dict", or "entries_not_list"
NoManifest == [present |-> FALSE, form |-> "dict", batch_id |-> None, entries |-> <<>>]
NoUndoPlan == [operation_id |-> None, library_root |-> <<>>, conflict_root |-> <<>>,
               entries |-> <<>>]

----------------------------------------------------------------------------
(* Initial states of the merge/undo machine *)
ClusterIdle ==
    /\ files = <<>> /\ sensitivity = "conservative"
    /\ uf = [parent |-> <<>>, rank |-> <<>>]
    /\ cphase = "off" /\ clusters = <<>>
MasterIdle == cluster = <<>> /\ master = <<>>
CallIdle == call_args = <<>> /\ call_ret = <<>>

\* files found in the destination before the merge
PreExisting ==
    LET d == Path(ChronDir, "a")
    IN  { <<>> } \cup { (d :> c) : c \in Contents }
        \cup { (d :> c) @@ (WithSuffix(d, Sha[c2]) :> "z") : c \in Contents, c2 \in Contents }

FolderActions(moves) ==
    LET ds == {dirname(moves[k].dst) : k \in 1..Len(moves)}
    IN  (IF ChronDir \in ds THEN <<CreateFolderAction(ChronDir)>> ELSE <<>>)
        \o (IF QuarantineDir \in ds THEN <<CreateFolderAction(QuarantineDir)>> ELSE <<>>)

MergeInit ==
    /\ \E n \in 1..MaxMoves :
         \E content \in [1..n -> Contents], dst \in [1..n -> DstChoices],
            sha \in [1..n -> {None} \cup {Sha[c] : c \in Contents}],
            pre \in PreExisting :
           LET moves == [k \in 1..n |-> MoveAction(SrcPath(k), dst[k], sha[k], 1)]
           IN  /\ fs = [p \in {SrcPath(k) : k \in 1..n} |->
                          content[CHOOSE k \in 1..n : SrcPath(k) = p]] @@ pre
               /\ dirs = UNION {Ancestors(dirname(p)) : p \in {SrcPath(k) : k \in 1..n} \cup DOMAIN pre}
                         \cup {LibRoot}
               /\ plan = FolderActions(moves) \o moves
    /\ \E d \in {1, 2} : st_dev = [r \in {"lib"} \cup {SrcRootNames[k] : k \in 1..Len(SrcRootNames)} |->
                                      IF r = "lib" THEN 1 ELSE d]
    /\ mstatus = "idle" /\ mi = 0 /\ merr = "" /\ renamed_paths = <<>>
    /\ manifest = NoManifest
    /\ undo_plan = NoUndoPlan /\ ustatus = "none" /\ ui = 0 /\ results = <<>>
    /\ summaries = <<>> /\ prepares = 0 /\ envWrites = <<>>
    /\ ClusterIdle /\ MasterIdle
    \* the disk as it is when execute_merge is called
    /\ call_args = [fs |-> fs, dirs |-> dirs] /\ call_ret = <<>>

----------------------------------------------------------------------------
(* merge_engine.execute_merge *)
infer_destination_root == LibRoot

\* an integrity check that never fires
HashMismatch_never(original_hash, new_hash) == FALSE

\* the post-move integrity check of execute_merge
HashMismatch(original_hash, new_hash) == original_hash # None /\ new_hash # original_hash

\* entry of execute_merge: ensure_structure and the CreateFolder parents
ExecuteMergeBegin ==
    /\ mstatus = "idle"
    /\ mstatus' = "running"
    /\ mi' = 1
    /\ dirs' = dirs \cup {LibRoot}
               \cup UNION {ensure_directory({}, plan[k].path) :
                             k \in {j \in 1..Len(plan) : plan[j].type = "CREATE_FOLDER"}}
    /\ UNCHANGED <<fs, st_dev, plan, merr, renamed_paths, manifest, undo_plan, ustatus,
                   ui, results, summaries, prepares, envWrites>>

\* what execute_merge does once the loop over plan.actions has ended
MergeCompleted(actions) ==
    /\ mstatus' = "done"
    /\ manifest' = write_source_manifest(actions)

MergeAdvance(actions) ==
    IF mi = Len(plan)
    THEN MergeCompleted(actions) /\ mi' = mi
    ELSE mstatus' = "running" /\ manifest' = manifest /\ mi' = mi + 1

\* one iteration of the loop: a CreateFolderAction
ExecuteMergeCreateFolder ==
    /\ mstatus = "running" /\ plan[mi].type = "CREATE_FOLDER"
    /\ dirs' = ensure_directory(dirs, plan[mi].path)
    /\ MergeAdvance(plan)
    /\ UNCHANGED <<fs, st_dev, plan, merr, renamed_paths, undo_plan, ustatus, ui,
                   results, summaries, prepares, envWrites>>

\* one iteration of the loop: a MoveMaster / MoveToQuarantineExact action
ExecuteMergeMove ==
    /\ mstatus = "running" /\ IsMove(plan[mi])
    /\ LET action == plan[mi]
           r == safe_move(fs, action.src, action.dst, infer_destination_root)
           moved_plan == [plan EXCEPT ![mi].dst = r.target]
       IN  IF r.raised
           THEN /\ mstatus' = "failed" /\ merr' = "move_failed"
                /\ UNCHANGED <<fs, dirs, plan, mi, renamed_paths, manifest>>
           ELSE /\ fs' = r.fs
                /\ dirs' = ensure_directory(dirs, dirname(action.dst))
                /\ plan' = moved_plan
                /\ renamed_paths' = IF r.target # action.dst
                                    THEN Append(renamed_paths, <<action.dst, r.target>>)
                                    ELSE renamed_paths
                /\ IF HashMismatch(action.sha256, compute_sha256(r.fs, r.target))
                   THEN mstatus' = "failed" /\ merr' = "hash_mismatch"
                        /\ UNCHANGED <<mi, manifest>>
                   ELSE merr' = merr /\ MergeAdvance(moved_plan)
    /\ UNCHANGED <<st_dev, undo_plan, ustatus, ui, results, summaries, prepares, envWrites>>

----------------------------------------------------------------------------
(* merge_engine: undo engine *)
YearSegs == {"2024"}
is_year(name) == name \in YearSegs
is_year_month(name, year) == <<year, name>> \in {<<"2024", "2024-01">>}

RECURSIVE CommonPrefix(_, _)
CommonPrefix(a, b) ==
    IF a = <<>> \/ b = <<>> \/ a[1] # b[1] THEN <<>>
    ELSE <<a[1]>> \o CommonPrefix(Tail(a), Tail(b))
RECURSIVE commonpath(_)
commonpath(ps) ==
    IF Len(ps) = 1 THEN ps[1] ELSE CommonPrefix(ps[1], commonpath(Tail(ps)))

RECURSIVE PeelStructural(_)
PeelStructural(root) ==
    IF root = <<>> THEN root
    ELSE LET base == Last(root)
             parent == Front(root)
         IN  IF base \in {"QUARANTINE_EXACT", "REVIEW"} THEN PeelStructural(parent)
             ELSE IF is_year(base) THEN PeelStructural(parent)
             ELSE IF parent # <<>> /\ is_year_month(base, Last(parent))
                  THEN PeelStructural(parent)
             ELSE root

\* _infer_library_root: [found, root]
infer_library_root(entries) ==
    LET withNew == SelectSeq(entries, LAMBDA e : e.new_path # NoPath)
        paths == [k \in 1..Len(withNew) |-> dirname(withNew[k].new_path)]
    IN  IF paths = <<>> THEN [found |-> FALSE, root |-> <<>>]
        ELSE [found |-> TRUE, root |-> PeelStructural(commonpath(paths))]

hash_matches(fsys, path, expected) ==
    IF expected = None THEN FALSE ELSE compute_sha256(fsys, path) = expected

\* _assert_same_filesystem: TRUE when source and target parent share a device
same_filesystem(src, target_path) == st_dev[src.dir[1]] = st_dev[target_path.dir[1]]

RECURSIVE FirstFreeNumbered(_, _, _)
FirstFreeNumbered(fsys, candidate, idx) ==
    IF idx > MaxNumbered THEN 0
    ELSE IF ~exists(fsys, WithSuffix(candidate, ToString(idx))) THEN idx
    ELSE FirstFreeNumbered(fsys, candidate, idx + 1)

\* _unique_destination: [raised, path]
unique_destination(fsys, path, src_hash) ==
    LET candidate == WithSuffix(path, Short12(src_hash))
        idx == FirstFreeNumbered(fsys, candidate, 1)
    IN  IF ~exists(fsys, path) THEN [raised |-> FALSE, path |-> path]
        ELSE IF ~exists(fsys, candidate) THEN [raised |-> FALSE, path |-> candidate]
        ELSE IF idx # 0
             THEN [raised |-> FALSE, path |-> WithSuffix(candidate, ToString(idx))]
        ELSE [raised |-> TRUE, path |-> path]

ConflictRoot(library_root, operation_id) ==
    library_root \o <<"REVIEW", "UNDO_CONFLICTS", operation_id>>

\* a classification that takes any file at the original path for the restored one
classify_entry_any_hash(fsys, entry, conflict_root) ==
    LET planned(status, target) ==
            [original_path |-> entry.original_path, new_path |-> entry.new_path,
             hash |-> entry.hash, status |-> status, target_path |-> target]
    IN  IF entry.original_path = NoPath \/ entry.new_path = NoPath
        THEN planned("skipped_invalid", NoPath)
        ELSE IF exists(fsys, entry.new_path)
             THEN IF exists(fsys, entry.original_path)
                  THEN planned("conflict", join(conflict_root, entry.new_path))
                  ELSE planned("restore", entry.original_path)
             ELSE IF exists(fsys, entry.original_path) THEN planned("skipped_restored", NoPath)
             ELSE planned("skipped_missing", NoPath)

\* the per-entry classification of prepare_undo_plan
classify_entry(fsys, entry, conflict_root) ==
    LET original_path == entry.original_path
        new_path == entry.new_path
        sha256 == entry.hash
        planned(status, target) ==
            [original_path |-> original_path, new_path |-> new_path, hash |-> sha256,
             status |-> status, target_path |-> target]
    IN  IF original_path = NoPath \/ new_path = NoPath
        THEN planned("skipped_invalid", NoPath)
        ELSE IF exists(fsys, new_path)
             THEN IF exists(fsys, original_path)
                  THEN planned("conflict", join(conflict_root, new_path))
                  ELSE planned("restore", original_path)
             ELSE IF exists(fsys, original_path) /\ hash_matches(fsys, original_path, sha256)
                  THEN planned("skipped_restored", NoPath)
             ELSE IF exists(fsys, original_path)
                  THEN planned("conflict_missing_source", NoPath)
             ELSE planned("skipped_missing", NoPath)

\* _undo_counts
CountStatus(entries, statuses) ==
    Cardinality({k \in 1..Len(entries) : entries[k].status \in statuses})
undo_counts(entries) ==
    [total |-> Len(entries),
     restore |-> CountStatus(entries, {"restore", "would_restore", "restored"}),
     conflict |-> CountStatus(entries, {"conflict", "would_conflict", "conflict_routed",
                                        "conflict_missing_source"}),
     skipped |-> CountStatus(entries, {"skipped_restored", "skipped_missing", "skipped_invalid"}),
     already_restored |-> CountStatus(entries, {"skipped_restored"}),
     missing |-> CountStatus(entries, {"skipped_missing", "skipped_invalid"})]

\* load_source_manifest: [status, batch_id, entries]
load_source_manifest(m) ==
    LET raise == [status |-> "UndoInputError", batch_id |-> None, entries |-> <<>>]
    IN  IF ~m.present THEN raise
        ELSE IF m.form = "invalid_json" THEN raise
        ELSE IF m.form = "not_dict" THEN raise
        ELSE IF m.batch_id = None THEN raise
        ELSE IF m.form = "entries_not_list" THEN raise
        ELSE [status |-> "ok", batch_id |-> m.batch_id, entries |-> m.entries]

\* a batch check that lets every operation id through
unknown_operation_never(operation_id, batch_id) == FALSE

\* operation_id != batch_id
unknown_operation(operation_id, batch_id) == operation_id # batch_id

\* prepare_undo_plan as a function of the filesystem, the manifest file and the
\* operation id: [status, plan]
prepare_undo_plan(fsys, m, operation_id) ==
    LET loaded == load_source_manifest(m)
        lib == infer_library_root(loaded.entries)
        conflict_root == ConflictRoot(lib.root, operation_id)
        raise == [status |-> "UndoInputError", plan |-> NoUndoPlan]
    IN  IF loaded.status # "ok" THEN raise
        ELSE IF unknown_operation(operation_id, loaded.batch_id) THEN raise
        ELSE IF ~lib.found THEN raise
        ELSE [status |-> "ok",
              plan |-> [operation_id |-> operation_id,
                        library_root |-> lib.root,
                        conflict_root |-> conflict_root,
                        entries |-> [k \in 1..Len(loaded.entries) |->
                                       classify_entry(fsys, loaded.entries[k], conflict_root)]]]

\* prepare_undo_plan(manifest_path, operation_id)
PrepareUndoPlan ==
    /\ mstatus \in {"done", "failed"}
    /\ ustatus # "running"
    /\ prepares < MaxUndoRuns
    /\ prepares' = prepares + 1
    /\ \E operation_id \in {manifest.batch_id, "unknown-op"} :
         LET prepared == prepare_undo_plan(fs, manifest, operation_id)
         IN  /\ ustatus' = IF prepared.status = "ok" THEN "prepared" ELSE "input_error"
             /\ undo_plan' = prepared.plan
    /\ ui' = 0 /\ results' = <<>>
    /\ UNCHANGED <<fs, dirs, st_dev, plan, mstatus, mi, merr, renamed_paths, manifest,
                   summaries, envWrites>>

Summary(entries) ==
    [operation_id |-> undo_plan.operation_id, mode |-> "execute",
     library_root |-> undo_plan.library_root, conflict_root |-> undo_plan.conflict_root,
     entries |-> entries, counts |-> undo_counts(entries)]

\* entry of execute_undo: ensure_directory(conflict_root)
ExecuteUndoBegin ==
    /\ ustatus = "prepared"
    /\ dirs' = ensure_directory(dirs, undo_plan.conflict_root)
    /\ results' = <<>>
    /\ IF undo_plan.entries = <<>>
       THEN ustatus' = "finished" /\ ui' = 0 /\ summaries' = Append(summaries, Summary(<<>>))
       ELSE ustatus' = "running" /\ ui' = 1 /\ summaries' = summaries
    /\ UNCHANGED <<fs, st_dev, plan, mstatus, mi, merr, renamed_paths, manifest, undo_plan,
                   prepares, envWrites>>

\* the loop of execute_undo moves on, or returns the summary after the last entry
UndoAdvance(new_results) ==
    /\ results' = new_results
    /\ IF ui = Len(undo_plan.entries)
       THEN ustatus' = "finished" /\ ui' = ui
            /\ summaries' = Append(summaries, Summary(new_results))
       ELSE ustatus' = "running" /\ ui' = ui + 1 /\ summaries' = summaries

\* a raise that first puts the files of the entries already processed back at
\* their new_path
UndoRaise_rollback ==
    LET moved == {j \in 1..Len(results) : results[j].status \in {"restored", "conflict_routed"}}
        back == {results[j].new_path : j \in moved}
        gone == {results[j].target_path : j \in moved}
    IN  /\ ustatus' = "safety_error"
        /\ fs' = [p \in (DOMAIN fs \ gone) \cup back |->
                    IF p \in back
                    THEN fs[results[CHOOSE j \in moved : results[j].new_path = p].target_path]
                    ELSE fs[p]]
        /\ UNCHANGED <<dirs, ui, results, summaries>>

UndoRaise ==
    /\ ustatus' = "safety_error"
    /\ UNCHANGED <<fs, dirs, ui, results, summaries>>

\* a pre-move check that never fires
UndoPrecheckFails_never(sha256, current_hash) == FALSE

\* the integrity check of execute_undo before the move
UndoPrecheckFails(sha256, current_hash) == sha256 # None /\ current_hash # sha256

\* a target that is taken as planned, occupied or not
undo_target_as_planned(fsys, entry, conflict_root) ==
    [raised |-> FALSE,
     path |-> IF entry.status = "restore" THEN entry.original_path
              ELSE join(conflict_root, entry.new_path)]

\* the target execute_undo moves the file to: [raised, path]
undo_target(fsys, entry, conflict_root) ==
    LET first == IF entry.status = "restore" THEN entry.original_path
                 ELSE join(conflict_root, entry.new_path)
    IN  IF exists(fsys, first)
        THEN unique_destination(fsys, join(conflict_root, entry.new_path), entry.hash)
        ELSE [raised |-> FALSE, path |-> first]

\* one iteration of the loop of execute_undo
ExecuteUndoEntry ==
    /\ ustatus = "running"
    /\ LET entry == undo_plan.entries[ui]
           src == entry.new_path
           original == entry.original_path
           sha256 == entry.hash
           first_target == IF entry.status = "restore" THEN original
                           ELSE join(undo_plan.conflict_root, src)
           t == undo_target(fs, entry, undo_plan.conflict_root)
       IN  IF entry.status \notin {"restore", "conflict"}
           THEN UndoAdvance(Append(results, entry)) /\ UNCHANGED <<fs, dirs>>
           ELSE IF src = NoPath \/ ~exists(fs, src)
           THEN /\ UndoAdvance(Append(results,
                     [entry EXCEPT !.status =
                          IF original # NoPath /\ exists(fs, original)
                             /\ hash_matches(fs, original, sha256)
                          THEN "skipped_restored" ELSE "skipped_missing",
                        !.target_path = NoPath]))
                /\ UNCHANGED <<fs, dirs>>
           ELSE IF first_target = NoPath
           THEN UndoAdvance(Append(results, [entry EXCEPT !.status = "skipped_invalid"]))
                /\ UNCHANGED <<fs, dirs>>
           ELSE IF ~same_filesystem(src, first_target) THEN UndoRaise
           ELSE IF UndoPrecheckFails(sha256, compute_sha256(fs, src)) THEN UndoRaise
           ELSE IF t.raised THEN UndoRaise
           ELSE /\ dirs' = ensure_directory(dirs, dirname(t.path))
                /\ fs' = [p \in (DOMAIN fs \ {src}) \cup {t.path} |->
                            IF p = t.path THEN fs[src] ELSE fs[p]]
                /\ UndoAdvance(Append(results,
                     [entry EXCEPT !.target_path = t.path,
                        !.status = IF entry.status = "restore" /\ t.path = original
                                   THEN "restored" ELSE "conflict_routed"]))
    /\ UNCHANGED <<st_dev, plan, mstatus, mi, merr, renamed_paths, manifest, undo_plan,
                   prepares, envWrites>>

----------------------------------------------------------------------------
(* Something other than the program writes a file while no operation runs *)
TrackedPaths ==
    {plan[k].src : k \in {j \in 1..Len(plan) : IsMove(plan[j])}}
    \cup {plan[k].dst : k \in {j \in 1..Len(plan) : IsMove(plan[j])}}

EnvWrite ==
    /\ mstatus \in {"done", "failed"}
    /\ ustatus # "running"
    /\ Len(envWrites) < MaxEnv
    /\ \E p \in TrackedPaths, c \in Contents :
         /\ fs' = [q \in DOMAIN fs \cup {p} |-> IF q = p THEN c ELSE fs[q]]
         /\ envWrites' = Append(envWrites, [path |-> p, content |-> c, at |-> ustatus,
                                            run |-> prepares])
    /\ UNCHANGED <<dirs, st_dev, plan, mstatus, mi, merr, renamed_paths, manifest, undo_plan,
                   ustatus, ui, results, summaries, prepares>>

MergeNext ==
    \/ ExecuteMergeBegin
    \/ ExecuteMergeCreateFolder
    \/ ExecuteMergeMove
    \/ PrepareUndoPlan
    \/ ExecuteUndoBegin
    \/ ExecuteUndoEntry
    \/ EnvWrite

Init == MergeInit
Next == MergeNext /\ UNCHANGED <<clVars, smVars, fnVars>>
Spec == Init /\ [][Next]_vars

----------------------------------------------------------------------------
(* models/fileinfo.py: FileInfo; identity is the path *)
NoneInt == -1
NoRes == <<>>
FileInfo(path, size, format, resolution, exif_datetime, exif_gps, exif_camera, exif_orientation, sha256, phash, is_raw) ==
    [path |-> path, size |-> size, format |-> format, resolution |-> resolution,
     exif_datetime |-> exif_datetime, exif_gps |-> exif_gps, exif_camera |-> exif_camera,
     exif_orientation |-> exif_orientation, sha256 |-> sha256, phash |-> phash,
     is_raw |-> is_raw, timestamp_reliable |-> TRUE, review_reason |-> None,
     selection_reason |-> None]

(* hashing.phash_distance: Hamming distance of the two hash values *)
RECURSIVE phash_distance(_, _)
phash_distance(a, b) ==
    IF a = 0 /\ b = 0 THEN 0
    ELSE (IF a % 2 # b % 2 THEN 1 ELSE 0) + phash_distance(a \div 2, b \div 2)

(* duplicates.py *)
PHASH_STRONG == 2
PHASH_WEAK == 5
PHASH_SEARCH_WINDOW == 20
SENSITIVITY_THRESHOLDS ==
    [conservative |-> <<PHASH_STRONG, PHASH_WEAK>>, balanced |-> <<3, 7>>,
     aggressive |-> <<4, 10>>]

Max2(a, b) == IF a >= b THEN a ELSE b
Min2(a, b) == IF a <= b THEN a ELSE b
Abs(a) == IF a < 0 THEN -a ELSE a

\* are_near_duplicates without the timestamp-delta rejection
are_near_duplicates_any_delta(a, b, sens) ==
    LET strong_threshold == SENSITIVITY_THRESHOLDS[sens][1]
        weak_threshold == SENSITIVITY_THRESHOLDS[sens][2]
        distance_value == phash_distance(a.phash, b.phash)
        area_a == a.resolution[1] * a.resolution[2]
        area_b == b.resolution[1] * b.resolution[2]
    IN  IF a.phash = NoneInt \/ b.phash = NoneInt THEN FALSE
        ELSE IF distance_value <= strong_threshold THEN TRUE
        ELSE IF distance_value <= weak_threshold
        THEN IF a.resolution = NoRes \/ b.resolution = NoRes THEN FALSE
             ELSE IF area_a = 0 \/ area_b = 0 THEN FALSE
             ELSE IF 10 * Max2(area_a, area_b) > 13 * Min2(area_a, area_b) THEN FALSE
             ELSE IF a.exif_datetime = NoneInt \/ b.exif_datetime = NoneInt THEN FALSE
             ELSE IF a.exif_camera # None /\ b.exif_camera # None
                     /\ a.exif_camera # b.exif_camera THEN FALSE
             ELSE TRUE
        ELSE FALSE

\* are_near_duplicates(a, b, sensitivity)
are_near_duplicates(a, b, sens) ==
    LET strong_threshold == SENSITIVITY_THRESHOLDS[sens][1]
        weak_threshold == SENSITIVITY_THRESHOLDS[sens][2]
        distance_value == phash_distance(a.phash, b.phash)
        area_a == a.resolution[1] * a.resolution[2]
        area_b == b.resolution[1] * b.resolution[2]
    IN  IF a.phash = NoneInt \/ b.phash = NoneInt THEN FALSE
        ELSE IF distance_value <= strong_threshold THEN TRUE
        ELSE IF distance_value <= weak_threshold
        THEN IF a.resolution = NoRes \/ b.resolution = NoRes THEN FALSE
             ELSE IF area_a = 0 \/ area_b = 0 THEN FALSE
             ELSE IF 10 * Max2(area_a, area_b) > 13 * Min2(area_a, area_b) THEN FALSE
             ELSE IF a.exif_datetime = NoneInt \/ b.exif_datetime = NoneInt THEN FALSE
             ELSE IF Abs(a.exif_datetime - b.exif_datetime) > 60 THEN FALSE
             ELSE IF a.exif_camera # None /\ b.exif_camera # None
                     /\ a.exif_camera # b.exif_camera THEN FALSE
             ELSE TRUE
        ELSE FALSE

\* a for-loop over range(lo, hi + 1) of the named loop, threading a value
\* through its body; env holds what the body reads
RECURSIVE ForRange(_, _, _, _, _)

(* UnionFind, keyed by path *)
UnionFind(elements) ==
    [parent |-> [p \in {elements[k].path : k \in 1..Len(elements)} |-> p],
     rank |-> [p \in {elements[k].path : k \in 1..Len(elements)} |-> 0]]

RECURSIVE uf_root(_, _)
uf_root(parent, e) == IF parent[e] = e THEN e ELSE uf_root(parent, parent[e])
RECURSIVE uf_chain(_, _)
uf_chain(parent, e) == IF parent[e] = e THEN {} ELSE {e} \cup uf_chain(parent, parent[e])
\* UnionFind.find: returns the root and compresses the path walked
uf_find(u, e) ==
    LET root == uf_root(u.parent, e)
        walked == uf_chain(u.parent, e)
    IN  [root |-> root,
         uf |-> [u EXCEPT !.parent = [p \in DOMAIN u.parent |->
                                        IF p \in walked THEN root ELSE u.parent[p]]]]
\* UnionFind.union
uf_union(u, e1, e2) ==
    LET f1 == uf_find(u, e1)
        f2 == uf_find(f1.uf, e2)
        root1 == f1.root
        root2 == f2.root
        v == f2.uf
    IN  IF root1 = root2 THEN v
        ELSE IF v.rank[root1] < v.rank[root2]
             THEN [v EXCEPT !.parent[root1] = root2]
        ELSE IF v.rank[root1] > v.rank[root2]
             THEN [v EXCEPT !.parent[root2] = root1]
        ELSE [v EXCEPT !.parent[root2] = root1, !.rank[root1] = @ + 1]

\* the first occurrences in a sequence of keys, in order
FirstOccurrences(keys) ==
    SelectSeq([k \in 1..Len(keys) |-> k],
              LAMBDA k : \A j \in 1..(k - 1) : keys[j] # keys[k])

\* keys of exact_groups in insertion order, a missing hash counted as a key
exact_keys_unfiltered(fl) ==
    LET hashes == [k \in 1..Len(fl) |-> fl[k].sha256]
        firsts == FirstOccurrences(hashes)
    IN  [i \in 1..Len(firsts) |-> hashes[firsts[i]]]

\* keys of exact_groups in insertion order
exact_keys(fl) ==
    LET hashes == [k \in 1..Len(fl) |-> fl[k].sha256]
        firsts == FirstOccurrences(hashes)
    IN  SelectSeq([i \in 1..Len(firsts) |-> hashes[firsts[i]]], LAMBDA h : h # None)

\* uf.union(first_file, group[i]) for i in range(1, len(group))
union_group(u, group) == ForRange("union_group", [group |-> group], u, 2, Len(group))

\* the loop over exact_groups.values()
union_exact_groups(u, fl, keys) ==
    ForRange("union_exact_groups", [files |-> fl, keys |-> keys], u, 1, Len(keys))

\* phase 1 of group_duplicates
exact_phase(u, fl) == union_exact_groups(u, fl, exact_keys(fl))

\* list.sort(key=phash): stable, equal keys keep their input order
SortByPhash(s) ==
    LET before(k) == {j \in 1..Len(s) :
                        s[j].phash < s[k].phash \/ (s[j].phash = s[k].phash /\ j < k)}
    IN  [p \in 1..Len(s) |-> s[CHOOSE k \in 1..Len(s) : Cardinality(before(k)) = p - 1]]

phash_candidates(fl) == SortByPhash(SelectSeq(fl, LAMBDA f : f.phash # NoneInt))

\* the inner loop: cands[i] against the candidates within the window after it
near_row(u, cands, i, sens) ==
    ForRange("near_row", [cands |-> cands, i |-> i, sens |-> sens], u,
             i + 1, Min2(i + PHASH_SEARCH_WINDOW, Len(cands)))

\* the outer loop over the sorted candidates
near_loop(u, cands, sens) ==
    ForRange("near_loop", [cands |-> cands, sens |-> sens], u, 1, Len(cands))

\* phase 2 of group_duplicates
near_phase(u, fl, sens) ==
    CHOOSE r \in {near_loop(u, cands, sens) : cands \in {phash_candidates(fl)}} : TRUE

Lower(s) == CASE s = "HEIC" -> "heic" [] s = "JPG" -> "jpg" [] s = "JPEG" -> "jpeg"
              [] OTHER -> s
Pixels(res) == IF res = NoRes THEN 0 ELSE res[1] * res[2]
OrZero(res) == IF res = NoRes THEN <<0, 0>> ELSE res
ExifCount(f) ==
    (IF f.exif_datetime # NoneInt THEN 1 ELSE 0) + (IF f.exif_gps THEN 1 ELSE 0)
    + (IF f.exif_camera # None THEN 1 ELSE 0) + (IF f.exif_orientation THEN 1 ELSE 0)

\* select_master.metadata_advantage
metadata_advantage(left_exif_count, right_exif_count, left_has_gps, right_has_gps) ==
    \/ left_exif_count > right_exif_count
    \/ left_exif_count = right_exif_count /\ left_has_gps /\ ~right_has_gps

\* select_master.is_better: [better, reason]
is_better(candidate, current) ==
    LET candidate_fmt == Lower(candidate.format)
        current_fmt == Lower(current.format)
        candidate_pixels == Pixels(candidate.resolution)
        current_pixels == Pixels(current.resolution)
        candidate_exif_count == ExifCount(candidate)
        current_exif_count == ExifCount(current)
        heic_vs_jpeg == candidate_fmt = "heic" /\ current_fmt \in {"jpg", "jpeg"}
        jpeg_vs_heic == candidate_fmt \in {"jpg", "jpeg"} /\ current_fmt = "heic"
        R(b, why) == [better |-> b, reason |-> why]
    IN  IF candidate.is_raw # current.is_raw THEN R(candidate.is_raw, "RAW_BEATS_JPEG")
        ELSE IF candidate_pixels # current_pixels
             THEN R(candidate_pixels > current_pixels, "HIGHER_RESOLUTION_WINS")
        ELSE IF OrZero(candidate.resolution) = OrZero(current.resolution) /\ heic_vs_jpeg
                /\ metadata_advantage(candidate_exif_count, current_exif_count,
                                      candidate.exif_gps, current.exif_gps)
             THEN R(TRUE, "MORE_EXIF_WINS")
        ELSE IF OrZero(candidate.resolution) = OrZero(current.resolution) /\ jpeg_vs_heic
                /\ metadata_advantage(current_exif_count, candidate_exif_count,
                                      current.exif_gps, candidate.exif_gps)
             THEN R(FALSE, "MORE_EXIF_WINS")
        ELSE IF candidate.size # current.size
             THEN R(candidate.size > current.size, "LARGER_FILESIZE_WINS")
        ELSE IF candidate_exif_count # current_exif_count
             THEN R(candidate_exif_count > current_exif_count, "MORE_EXIF_WINS")
        ELSE IF candidate.exif_gps # current.exif_gps
             THEN R(candidate.exif_gps, "GPS_PRESENT_BEATS_GPS_ABSENT")
        ELSE IF candidate.exif_datetime = NoneInt /\ current.exif_datetime = NoneInt
             THEN R(FALSE, None)
        ELSE IF candidate.exif_datetime = NoneInt THEN R(FALSE, "OLDEST_CAPTURE_WINS")
        ELSE IF current.exif_datetime = NoneInt THEN R(TRUE, "OLDEST_CAPTURE_WINS")
        ELSE IF candidate.exif_datetime # current.exif_datetime
             THEN R(candidate.exif_datetime < current.exif_datetime, "OLDEST_CAPTURE_WINS")
        ELSE R(FALSE, None)

\* one iteration of the loop of select_master over cluster.files
select_step(members, acc, k) ==
    LET c == is_better(members[k], acc.master)
    IN  [master |-> IF c.better THEN members[k] ELSE acc.master,
         master_reason |-> IF c.reason # None THEN c.reason ELSE acc.master_reason]

\* select_master(cluster): the master, with selection_reason written on it
select_master(members) ==
    LET r == ForRange("select_master", [members |-> members],
                      [master |-> members[1], master_reason |-> None], 2, Len(members))
    IN  [r.master EXCEPT !.selection_reason = r.master_reason]

\* the body of each loop of duplicates.py, at index k
LoopBody(loop, env, acc, k) ==
    CASE loop = "union_group" -> uf_union(acc, env.group[1].path, env.group[k].path)
      [] loop = "union_exact_groups" ->
            LET group == SelectSeq(env.files, LAMBDA f : f.sha256 = env.keys[k])
            IN  IF Len(group) > 1 THEN union_group(acc, group) ELSE acc
      [] loop = "near_row" ->
            IF are_near_duplicates(env.cands[env.i], env.cands[k], env.sens)
            THEN uf_union(acc, env.cands[env.i].path, env.cands[k].path) ELSE acc
      [] loop = "near_loop" -> near_row(acc, env.cands, k, env.sens)
      [] loop = "select_master" -> select_step(env.members, acc, k)

\* acc = LoopBody(acc, lo); ...; acc = LoopBody(acc, hi): the first half of the
\* range is run to its value before the second half starts from it
ForRange(loop, env, acc, lo, hi) ==
    IF lo > hi THEN acc
    ELSE IF lo = hi THEN LoopBody(loop, env, acc, lo)
    ELSE CHOOSE r \in {ForRange(loop, env, half, (lo + hi) \div 2 + 1, hi) :
                         half \in {ForRange(loop, env, acc, lo, (lo + hi) \div 2)}} : TRUE

\* a DuplicateCluster whose redundant list keeps the master
DuplicateCluster_all(cluster_index, cluster_files) ==
    LET m == select_master(cluster_files)
    IN  [cluster_id |-> cluster_index,
         files |-> [k \in 1..Len(cluster_files) |->
                      IF cluster_files[k].path = m.path THEN m ELSE cluster_files[k]],
         master |-> m,
         redundant |-> cluster_files]

\* DuplicateCluster(cluster_id, cluster_files, master, redundant) as group_duplicates builds it
DuplicateCluster(cluster_index, cluster_files) ==
    LET m == select_master(cluster_files)
    IN  [cluster_id |-> cluster_index,
         files |-> [k \in 1..Len(cluster_files) |->
                      IF cluster_files[k].path = m.path THEN m ELSE cluster_files[k]],
         master |-> m,
         redundant |-> SelectSeq(cluster_files, LAMBDA f : f.path # m.path)]

\* keys of raw_clusters in insertion order
cluster_roots(u, fl) ==
    LET found == [k \in 1..Len(fl) |-> uf_root(u.parent, fl[k].path)]
        firsts == FirstOccurrences(found)
    IN  [i \in 1..Len(firsts) |-> found[firsts[i]]]

\* extraction of the final clusters
extract_clusters(u, fl) ==
    LET roots == cluster_roots(u, fl)
    IN  [k \in 1..Len(roots) |->
           DuplicateCluster(k, SelectSeq(fl, LAMBDA f : uf_root(u.parent, f.path) = roots[k]))]

\* group_duplicates(files, sensitivity=...)
group_duplicates(fl, sens) ==
    IF fl = <<>> THEN <<>>
    ELSE CHOOSE r \in {extract_clusters(near, fl) :
                         near \in {near_phase(exact, fl, sens) :
                                     exact \in {exact_phase(UnionFind(fl), fl)}}} : TRUE

----------------------------------------------------------------------------
(* The clustering machine: one group_duplicates call, phase by phase *)
MaxFiles == 3
Sensitivities == {"conservative", "balanced", "aggressive"}
ShaValues == {None, "A", "B"}
PhashValues == {NoneInt, 0, 15, 2047}

MergeIdle ==
    /\ fs = <<>> /\ dirs = {} /\ st_dev = <<>> /\ plan = <<>>
    /\ mstatus = "off" /\ mi = 0 /\ merr = "" /\ renamed_paths = <<>>
    /\ manifest = NoManifest /\ undo_plan = NoUndoPlan /\ ustatus = "off" /\ ui = 0
    /\ results = <<>> /\ summaries = <<>> /\ prepares = 0 /\ envWrites = <<>>

ClusterRecord(path, sha, ph) ==
    FileInfo(path, 1, "jpg", <<10, 10>>, 0, FALSE, None, FALSE, sha, ph, FALSE)

ClusterInit ==
    /\ \E n \in 0..MaxFiles :
         \E sha \in [1..n -> ShaValues], ph \in [1..n -> PhashValues] :
           files = [k \in 1..n |-> ClusterRecord(k, sha[k], ph[k])]
    /\ sensitivity \in Sensitivities
    /\ uf = UnionFind(files)
    /\ cphase = "input" /\ clusters = <<>>
    /\ MergeIdle /\ MasterIdle /\ CallIdle

GroupExact ==
    /\ cphase = "input"
    /\ IF files = <<>>
       THEN cphase' = "done" /\ uf' = uf
       ELSE cphase' = "exact" /\ uf' = exact_phase(uf, files)
    /\ UNCHANGED <<files, sensitivity, clusters>>

GroupNear ==
    /\ cphase = "exact"
    /\ uf' = near_phase(uf, files, sensitivity)
    /\ cphase' = "near"
    /\ UNCHANGED <<files, sensitivity, clusters>>

GroupExtract ==
    /\ cphase = "near"
    /\ clusters' = extract_clusters(uf, files)
    /\ files' = [k \in 1..Len(files) |->
                   LET c == CHOOSE c \in {clusters'[j] : j \in 1..Len(clusters')} :
                              \E i \in 1..Len(c.files) : c.files[i].path = files[k].path
                   IN  IF c.master.path = files[k].path THEN c.master ELSE files[k]]
    /\ cphase' = "done"
    /\ UNCHANGED <<sensitivity, uf>>

ClusterNext == GroupExact \/ GroupNear \/ GroupExtract

SpecCluster == ClusterInit /\ [][ClusterNext /\ UNCHANGED <<fsVars, smVars, fnVars>>]_vars

(* The wide input: more perceptual-hash candidates than the search window *)
WideInit ==
    /\ \E close \in 0..(PHASH_SEARCH_WINDOW + 1), first \in 1..(PHASH_SEARCH_WINDOW + 1) :
         LET order == [k \in 1..(PHASH_SEARCH_WINDOW + 1) |->
                         ((k + first - 2) % (PHASH_SEARCH_WINDOW + 1)) + 1]
         IN  files = [k \in 1..(PHASH_SEARCH_WINDOW + 1) |->
                        FileInfo(order[k], 1, "jpg", <<10, 10>>,
                                 IF order[k] = close THEN 0 ELSE 1000,
                                 FALSE, None, FALSE, None, 0, FALSE)]
                     \o <<FileInfo(PHASH_SEARCH_WINDOW + 2, 1, "jpg", <<10, 10>>, 0,
                                   FALSE, None, FALSE, None, 15, FALSE)>>
    /\ sensitivity \in Sensitivities
    /\ uf = UnionFind(files)
    /\ cphase = "input" /\ clusters = <<>>
    /\ MergeIdle /\ MasterIdle /\ CallIdle

SpecClusterWide == WideInit /\ [][ClusterNext /\ UNCHANGED <<fsVars, smVars, fnVars>>]_vars

----------------------------------------------------------------------------
(* The master-selection machine: one select_master call *)
MaxMembers == 3
MasterFormats == {"heic", "jpg", "png"}
\* (exif_datetime, exif_gps) pairs
ExifProfiles == {<<NoneInt, FALSE>>, <<5, FALSE>>, <<NoneInt, TRUE>>, <<5, TRUE>>}
MasterUniverse ==
    {FileInfo(0, sz, fmt, <<10, 10>>, ex[1], ex[2], None, FALSE, "A", NoneInt, FALSE) :
        sz \in {1, 2}, fmt \in MasterFormats, ex \in ExifProfiles}
    \cup {FileInfo(0, 1, "jpg", <<10, 10>>, NoneInt, FALSE, None, FALSE, "A", NoneInt, TRUE),
          FileInfo(0, 1, "jpg", <<20, 10>>, NoneInt, FALSE, None, FALSE, "A", NoneInt, FALSE),
          FileInfo(0, 1, "JPEG", <<10, 10>>, 3, FALSE, None, FALSE, "A", NoneInt, FALSE),
          FileInfo(0, 1, "heic", NoRes, 5, FALSE, "cam", TRUE, "A", NoneInt, FALSE)}

MasterInit ==
    /\ \E n \in 1..MaxMembers :
         \E pick \in [1..n -> MasterUniverse] :
           cluster = [k \in 1..n |-> [pick[k] EXCEPT !.path = k]]
    /\ master = <<>>
    /\ MergeIdle /\ ClusterIdle /\ CallIdle

SelectMaster ==
    /\ master = <<>>
    /\ master' = <<select_master(cluster)>>
    /\ cluster' = [k \in 1..Len(cluster) |->
                     IF cluster[k].path = master'[1].path THEN master'[1] ELSE cluster[k]]

SpecMaster == MasterInit /\ [][SelectMaster /\ UNCHANGED <<fsVars, clVars, fnVars>>]_vars

----------------------------------------------------------------------------
(* One are_near_duplicates call *)
NearRecord(ph, res, dt, cam) == FileInfo(0, 1, "jpg", res, dt, FALSE, cam, FALSE, None, ph, FALSE)
NearPhashes == {NoneInt, 0, 1, 3, 7, 15, 31, 63, 127, 255, 1023, 2047}
NearResolutions == {NoRes, <<0, 10>>, <<10, 10>>, <<13, 10>>, <<14, 10>>}
NearTimes == {NoneInt, 0, 60, 61}
NearCameras == {None, "c1", "c2"}

NearInit ==
    /\ \E pa \in {NoneInt, 0}, ra \in {NoRes, <<0, 10>>, <<10, 10>>}, ta \in {NoneInt, 0},
          ca \in NearCameras, pb \in NearPhashes, rb \in NearResolutions,
          tb \in NearTimes, cb \in NearCameras, sens \in Sensitivities :
         call_args = [a |-> NearRecord(pa, ra, ta, ca), b |-> NearRecord(pb, rb, tb, cb),
                      sensitivity |-> sens]
    /\ call_ret = <<>>
    /\ MergeIdle /\ ClusterIdle /\ MasterIdle

CallAreNearDuplicates ==
    /\ call_ret = <<>>
    /\ call_ret' = <<are_near_duplicates(call_args.a, call_args.b, call_args.sensitivity)>>
    /\ UNCHANGED call_args

SpecNear == NearInit /\ [][CallAreNearDuplicates /\ UNCHANGED <<fsVars, clVars, smVars>>]_vars

----------------------------------------------------------------------------
(* merge_engine: destination validation *)
\* the destination as os.path/os.listdir show it: the root's kind, its entries
\* by name, and for each directory entry its own entries by name
EntryKinds == {"dir", "file", "symlink"}
TopNames == {"2024", "misc", ".DS_Store"}
MonthNames == {"2024-01", "2024-13", "13", ".keep"}
MaxEntries == 2
NoEntries == [n \in {} |-> "dir"]

\* entry.startswith(".")
starts_with_dot(name) == name \in {".DS_Store", ".keep"}

\* listings of a directory: at most MaxEntries of the names, each of some kind
Listings(names) ==
    UNION {[chosen -> EntryKinds] : chosen \in {c \in SUBSET names : Cardinality(c) <= MaxEntries}}

DestTrees ==
    {[kind |-> k, entries |-> NoEntries, months |-> NoEntries] : k \in {"absent", "file", "symlink"}}
    \cup {[kind |-> "dir", entries |-> top, months |-> months] :
            top \in Listings(TopNames), months \in Listings(MonthNames)}

\* the destination states in which "2024" is not a directory have nothing under it
WellFormedTree(t) ==
    ("2024" \notin DOMAIN t.entries \/ t.entries["2024"] # "dir") => t.months = NoEntries

\* the checks on one month entry of a year folder, in the code's order
month_violation(t, year, month_entry) ==
    IF t.months[month_entry] = "symlink" THEN "symlink"
    ELSE IF t.months[month_entry] # "dir" THEN "not_a_directory"
    ELSE IF ~is_year_month(month_entry, year) THEN "not_year_month"
    ELSE None

\* the checks on one entry of the destination, in the code's order
year_violation(t, entry) ==
    IF t.entries[entry] = "symlink" THEN "symlink"
    ELSE IF t.entries[entry] # "dir" THEN "not_a_directory"
    ELSE IF ~is_year(entry) THEN "not_year"
    ELSE IF \E m \in DOMAIN t.months : ~starts_with_dot(m) /\ month_violation(t, entry, m) # None
         THEN "month"
    ELSE None

\* _validate_destination: "ok", or "MergePlanError"
validate_destination(t) ==
    IF t.kind = "symlink" THEN "MergePlanError"
    ELSE IF t.kind = "file" THEN "MergePlanError"
    ELSE IF t.kind = "absent" THEN "ok"
    ELSE IF {e \in DOMAIN t.entries : ~starts_with_dot(e)} = {} THEN "ok"
    ELSE IF \E e \in DOMAIN t.entries : ~starts_with_dot(e) /\ year_violation(t, e) # None
         THEN "MergePlanError"
    ELSE "ok"

\* what a raised error tells: the segment it names and why it failed
NoError == [segment |-> None, why |-> None]
RootSegment == "<destination>"
\* the MergePlanError _validate_destination can raise on t: the first entry, in
\* listing order, that fails a check; any failing entry can come first
validation_errors(t) ==
    IF t.kind = "symlink" THEN {[segment |-> RootSegment, why |-> "symlink"]}
    ELSE IF t.kind = "file" THEN {[segment |-> RootSegment, why |-> "not_a_directory"]}
    ELSE IF t.kind = "absent" THEN {}
    ELSE {[segment |-> e, why |-> year_violation(t, e)] :
             e \in {x \in DOMAIN t.entries :
                      ~starts_with_dot(x) /\ year_violation(t, x) \notin {None, "month"}}}
         \cup {[segment |-> m, why |-> month_violation(t, "2024", m)] :
                 m \in {x \in DOMAIN t.months :
                          /\ "2024" \in DOMAIN t.entries /\ year_violation(t, "2024") = "month"
                          /\ ~starts_with_dot(x) /\ month_violation(t, "2024", x) # None}}

\* the error build_merge_plan raises to its caller for a result status:
\* StorageError passes through, anything else is raised anew
build_merge_plan_error(status) ==
    CASE status = "MergePlanError" -> [segment |-> None, why |-> "Failed to build merge plan"]
      [] status = "StorageError" -> [segment |-> None, why |-> "Insufficient storage"]
      [] OTHER -> NoError

----------------------------------------------------------------------------
(* organizer: target paths.  A capture time is counted in months here: only
   its year and month are read. *)
dt_year(t) == t \div 12
dt_month(t) == (t % 12) + 1
\* f"{month:02d}"
two_digits(m) == IF m < 10 THEN "0" \o ToString(m) ELSE ToString(m)

\* _parse_month_segment(year_text, candidate): <<month>>, "invalid" as <<0>>, or <<>>
parse_month_segment(year_text, candidate) ==
    CASE \E m \in 1..12 : candidate \in {year_text \o "-" \o two_digits(m),
                                         year_text \o "_" \o two_digits(m),
                                         year_text \o two_digits(m), two_digits(m)}
           -> <<CHOOSE m \in 1..12 :
                  candidate \in {year_text \o "-" \o two_digits(m), year_text \o "_" \o two_digits(m),
                                 year_text \o two_digits(m), two_digits(m)}>>
      [] \E m \in {0} \cup 13..19 : candidate \in {year_text \o "-" \o two_digits(m),
                                                   year_text \o "_" \o two_digits(m),
                                                   year_text \o two_digits(m), two_digits(m)}
           -> <<0>>
      [] OTHER -> <<>>

\* _existing_chronology(path) from directory segment idx on:
\* [coordinates |-> <<year_text, month>> or <<>>, invalid |-> BOOLEAN]
RECURSIVE existing_chronology(_, _)
existing_chronology(segs, idx) ==
    IF idx > Len(segs) THEN [coordinates |-> <<>>, invalid |-> FALSE]
    ELSE IF ~is_year(segs[idx]) \/ idx + 1 > Len(segs) THEN existing_chronology(segs, idx + 1)
    ELSE LET detection == parse_month_segment(segs[idx], segs[idx + 1])
         IN  IF detection = <<0>> THEN [coordinates |-> <<>>, invalid |-> TRUE]
             ELSE IF detection # <<>>
                  THEN [coordinates |-> <<segs[idx], detection[1]>>, invalid |-> FALSE]
             ELSE existing_chronology(segs, idx + 1)

\* a review test that looks at the path's chronology only
review_reason_path_only(file, chronology_invalid) ==
    IF chronology_invalid THEN "invalid_chronology" ELSE None

\* _review_reason(file, chronology_invalid)
review_reason(file, chronology_invalid) ==
    IF chronology_invalid THEN "invalid_chronology"
    ELSE IF file.exif_datetime = NoneInt THEN "missing_exif_timestamp"
    ELSE IF ~file.timestamp_reliable THEN "timestamp_unreliable"
    ELSE None

\* the body of determine_target_path once the path's chronology and the review
\* reason are known
target_path(file, base_out, coordinates, reason) ==
    LET year == IF coordinates # <<>> THEN coordinates[1]
                ELSE ToString(dt_year(file.exif_datetime))
        month == IF coordinates # <<>> THEN coordinates[2] ELSE dt_month(file.exif_datetime)
    IN  IF reason # None
        THEN [path |-> Path(base_out \o <<"REVIEW">>, file.path.stem), review_reason |-> reason]
        ELSE [path |-> Path(base_out \o <<year, year \o "-" \o two_digits(month)>>, file.path.stem),
              review_reason |-> None]

chronology_target(file, base_out, chronology) ==
    target_path(file, base_out, chronology.coordinates, review_reason(file, chronology.invalid))

\* determine_target_path(file, base_out, merge_mode="on"): [path, review_reason]
determine_target_path(file, base_out) ==
    chronology_target(file, base_out, existing_chronology(file.path.dir, 1))

----------------------------------------------------------------------------
(* merge_engine: build_merge_plan *)
MoveMasterAction(file, target) ==
    [type |-> "MOVE_MASTER", src |-> file.path, dst |-> target.path, sha256 |-> file.sha256,
     size |-> file.size, review_reason |-> target.review_reason]
MoveToQuarantineExactAction(file, target) ==
    [type |-> "MOVE_TO_QUARANTINE_EXACT", src |-> file.path, dst |-> target,
     sha256 |-> file.sha256, size |-> file.size]
MarkNearDuplicateAction(file, m) ==
    [type |-> "MARK_NEAR_DUPLICATE", src |-> file.path, master |-> m.path,
     sha256 |-> file.sha256, size |-> file.size]

\* cluster.master or select_master(cluster); an unset master is <<>>
cluster_master(c) == IF c.master = <<>> THEN select_master(c.files) ELSE c.master[1]

\* the actions for the redundant members, exact duplicates first
redundant_actions(m, exact, near, destination) ==
    [k \in 1..Len(exact) |->
        MoveToQuarantineExactAction(exact[k],
            Path(destination \o <<"QUARANTINE_EXACT">>, exact[k].path.stem))]
    \o [k \in 1..Len(near) |-> MarkNearDuplicateAction(near[k], m)]

\* the actions for one cluster whose master is m and whose other members are redundant
master_actions(m, redundant, destination) ==
    <<MoveMasterAction(m, determine_target_path(m, destination))>>
    \o redundant_actions(m, SelectSeq(redundant, LAMBDA f : f.sha256 = m.sha256),
                         SelectSeq(redundant, LAMBDA f : f.sha256 # m.sha256), destination)

members_actions(c, m, destination) ==
    master_actions(m, SelectSeq(c.files, LAMBDA f : f.path # m.path), destination)

\* the actions _create_file_actions appends for one cluster
cluster_actions(c, destination) == members_actions(c, cluster_master(c), destination)

RECURSIVE all_cluster_actions(_, _)
all_cluster_actions(cls, destination) ==
    IF cls = <<>> THEN <<>>
    ELSE cluster_actions(cls[1], destination) \o all_cluster_actions(Tail(cls), destination)

\* _create_file_actions: the file actions, clusters first, then unclustered files
create_file_actions(fl, cls, destination) ==
    LET files_in_clusters == UNION {{cls[k].files[i].path : i \in 1..Len(cls[k].files)} :
                                      k \in 1..Len(cls)}
        loose == SelectSeq(fl, LAMBDA f : f.path \notin files_in_clusters)
    IN  all_cluster_actions(cls, destination)
        \o [k \in 1..Len(loose) |->
              MoveMasterAction(loose[k], determine_target_path(loose[k], destination))]

\* the folders set of _create_file_actions
plan_folders(file_actions) ==
    {dirname(file_actions[k].dst) :
        k \in {j \in 1..Len(file_actions) : file_actions[j].type # "MARK_NEAR_DUPLICATE"}}

\* every enumeration order of a set (iteration order of a Python set)
Orderings(S) ==
    {o \in [1..Cardinality(S) -> S] : \A i, j \in 1..Cardinality(S) : i # j => o[i] # o[j]}

RECURSIVE sum_sizes(_)
sum_sizes(acts) == IF acts = <<>> THEN 0 ELSE acts[1].size + sum_sizes(Tail(acts))

\* required_space summed over every action that has a size
calculate_storage_all(actions) ==
    sum_sizes(SelectSeq(actions, LAMBDA a : a.type # "CREATE_FOLDER"))

\* _calculate_storage: required_space
calculate_storage(actions) ==
    sum_sizes(SelectSeq(actions,
                        LAMBDA a : a.type \in {"MOVE_MASTER", "MOVE_TO_QUARANTINE_EXACT"}))

\* a storage test that also refuses an exactly sufficient destination
insufficient_or_equal(required_space, destination_free) == required_space >= destination_free

\* required_space > destination_free
insufficient(required_space, destination_free) == required_space > destination_free

NoPlan == <<>>
\* build_merge_plan(files, clusters, out_path) with the folder actions in the
\* given order: [status, plan]
\* the storage test and the MergePlan of build_merge_plan
storage_gate(actions, required_space, destination_free, fl, cls, destination) ==
    IF insufficient(required_space, destination_free)
    THEN [status |-> "StorageError", plan |-> NoPlan]
    ELSE [status |-> "ok",
          plan |-> <<[required_space |-> required_space,
                      destination_free |-> destination_free,
                      duplicate_count |-> Len(cls), total_files |-> Len(fl),
                      actions |-> actions, destination_path |-> destination]>>]

plan_of_actions(actions, destination_free, fl, cls, destination) ==
    storage_gate(actions, calculate_storage(actions), destination_free, fl, cls, destination)

build_merge_plan(fl, cls, destination, tree, destination_free, folder_order) ==
    IF validate_destination(tree) # "ok" THEN [status |-> "MergePlanError", plan |-> NoPlan]
    ELSE plan_of_actions([k \in 1..Len(folder_order) |-> CreateFolderAction(folder_order[k])]
                            \o create_file_actions(fl, cls, destination),
                         destination_free, fl, cls, destination)

----------------------------------------------------------------------------
(* One build_merge_plan or validate_destination call *)
MaxPlanFiles == 3
PlanDestination == <<"lib">>
PlanNames == <<"a.jpg", "b.jpg", "c.jpg", "d.jpg", "e.jpg">>
Jan2024 == 2024 * 12
\* (size, sha256, exif_datetime) of the files handed to the planner
PlanProfiles ==
    {<<10, "A", Jan2024>>, <<5, "A", Jan2024>>, <<3, "B", Jan2024 + 2>>,
     <<3, None, Jan2024>>, <<5, None, NoneInt>>, <<10, "B", NoneInt>>}
PlanFile(k, prof) ==
    FileInfo(Path(<<"src">>, PlanNames[k]), prof[1], "jpg", <<10, 10>>, prof[3], FALSE, None,
             FALSE, prof[2], NoneInt, FALSE)
PlanFileLists ==
    UNION {{[k \in 1..n |-> PlanFile(k, pick[k])] : pick \in [1..n -> PlanProfiles]} :
             n \in 1..MaxPlanFiles}
\* no cluster, or one cluster of the first m files whose master is unset or a member
PlanClusters(fl) ==
    {<<>>} \cup {<<[files |-> SubSeq(fl, 1, m), master |-> mm]>> :
                    m \in 2..Len(fl), mm \in {<<>>} \cup {<<fl[i]>> : i \in 1..Len(fl)}}
PlanFreeSpace == {0, 14, 15, 18}
AbsentTree == [kind |-> "absent", entries |-> NoEntries, months |-> NoEntries]
PlanCall(fl, cls, tree, free) ==
    [files |-> fl, clusters |-> cls, tree |-> tree, destination_free |-> free]

PlanInit ==
    /\ \/ \E fl \in PlanFileLists : \E cls \in PlanClusters(fl) : \E free \in PlanFreeSpace :
            /\ \A k \in 1..Len(cls) : cls[k].master # <<>> =>
                   \E i \in 1..Len(cls[k].files) : cls[k].files[i] = cls[k].master[1]
            /\ call_args = PlanCall(fl, cls, AbsentTree, free)
       \/ \E tree \in DestTrees : \E free \in {0, 18} :
            /\ WellFormedTree(tree)
            /\ call_args = PlanCall(<<PlanFile(1, <<10, "A", Jan2024>>)>>, <<>>, tree, free)
    /\ call_ret = <<>>
    /\ MergeIdle /\ ClusterIdle /\ MasterIdle

PlanReturn(result) ==
    [fn |-> "build_merge_plan", result |-> result,
     error |-> build_merge_plan_error(result.status)]

CallBuildMergePlan ==
    /\ call_ret = <<>>
    /\ \E folder_order \in Orderings(plan_folders(
              create_file_actions(call_args.files, call_args.clusters, PlanDestination))) :
         call_ret' = <<PlanReturn(build_merge_plan(call_args.files, call_args.clusters,
                                      PlanDestination, call_args.tree,
                                      call_args.destination_free, folder_order))>>
    /\ UNCHANGED call_args

CallValidateDestination ==
    /\ call_ret = <<>>
    /\ \E error \in IF validate_destination(call_args.tree) = "ok" THEN {NoError}
                     ELSE validation_errors(call_args.tree) :
         call_ret' = <<[fn |-> "validate_destination",
                        result |-> [status |-> validate_destination(call_args.tree),
                                    plan |-> NoPlan],
                        error |-> error]>>
    /\ UNCHANGED call_args

PlanNext == CallBuildMergePlan \/ CallValidateDestination
SpecPlan == PlanInit /\ [][PlanNext /\ UNCHANGED <<fsVars, clVars, smVars>>]_vars

----------------------------------------------------------------------------
(* merge_engine.preview_undo *)
\* a preview that hands restore entries back unrelabelled
preview_status_keep(status) ==
    CASE status = "conflict" -> "would_conflict"
      [] OTHER -> status

\* the relabelling of preview_undo
preview_status(status) ==
    CASE status = "restore" -> "would_restore"
      [] status = "conflict" -> "would_conflict"
      [] OTHER -> status

\* preview_undo(plan): the summary
preview_undo(p) ==
    LET entries == [k \in 1..Len(p.entries) |->
                      [p.entries[k] EXCEPT !.status = preview_status(@)]]
    IN  [operation_id |-> p.operation_id, mode |-> "preview",
         library_root |-> p.library_root, conflict_root |-> p.conflict_root,
         entries |-> entries, counts |-> undo_counts(entries)]

----------------------------------------------------------------------------
(* One prepare_undo_plan call on a manifest file, and preview_undo on its plan *)
MaxManifestEntries == 2
\* what a manifest entry records and what is on disk at its two paths
OriginalStates == {"unset", "free", "x", "y"}
NewStates == {"unset", "free", "x"}
ManifestHashes == {None, "hx"}
ManifestEntry(k, orig, new, hash) ==
    [original_path |-> IF orig = "unset" THEN NoPath ELSE SrcPath(k),
     original_folder |-> IF orig = "unset" THEN <<>> ELSE dirname(SrcPath(k)),
     new_path |-> IF new = "unset" THEN NoPath ELSE Path(ChronDir, PlanNames[k]),
     hash |-> hash]
\* the manifest files that hold the given entries, sound and unsound
ManifestFiles(entries) ==
    LET sound == [present |-> TRUE, form |-> "dict", batch_id |-> manifest_batch_id(entries),
                  entries |-> entries]
    IN  {sound, [sound EXCEPT !.present = FALSE], [sound EXCEPT !.form = "invalid_json"],
         [sound EXCEPT !.form = "not_dict"], [sound EXCEPT !.batch_id = None],
         [sound EXCEPT !.form = "entries_not_list"]}

PrepareInit ==
    /\ \E n \in 1..MaxManifestEntries :
         \E orig \in [1..n -> OriginalStates], new \in [1..n -> NewStates],
            hash \in [1..n -> ManifestHashes] :
           LET entries == [k \in 1..n |-> ManifestEntry(k, orig[k], new[k], hash[k])]
               on_disk == {SrcPath(k) : k \in {j \in 1..n : orig[j] \in Contents}}
                          \cup {Path(ChronDir, PlanNames[k]) : k \in {j \in 1..n : new[j] = "x"}}
           IN  /\ manifest \in ManifestFiles(entries)
               /\ fs = [q \in on_disk |->
                          IF q.dir = ChronDir THEN "x"
                          ELSE orig[CHOOSE k \in 1..n : SrcPath(k) = q]]
               /\ dirs = UNION {Ancestors(dirname(q)) : q \in on_disk} \cup {LibRoot}
               /\ \E operation_id \in {manifest_batch_id(entries), "unknown-op"} :
                    call_args = [operation_id |-> operation_id, fs |-> fs, dirs |-> dirs]
    /\ call_ret = <<>>
    /\ st_dev = <<>> /\ plan = <<>> /\ mstatus = "off" /\ mi = 0 /\ merr = ""
    /\ renamed_paths = <<>> /\ undo_plan = NoUndoPlan /\ ustatus = "off" /\ ui = 0
    /\ results = <<>> /\ summaries = <<>> /\ prepares = 0 /\ envWrites = <<>>
    /\ ClusterIdle /\ MasterIdle

CallPrepareUndoPlan ==
    /\ call_ret = <<>>
    /\ LET prepared == prepare_undo_plan(fs, manifest, call_args.operation_id)
       IN  /\ call_ret' = <<[fn |-> "prepare_undo_plan", status |-> prepared.status]>>
           /\ undo_plan' = prepared.plan
           /\ ustatus' = IF prepared.status = "ok" THEN "prepared" ELSE "input_error"
    /\ UNCHANGED <<fs, dirs, st_dev, plan, mstatus, mi, merr, renamed_paths, manifest, ui,
                   results, summaries, prepares, envWrites, call_args>>

CallPreviewUndo ==
    /\ ustatus = "prepared" /\ summaries = <<>>
    /\ summaries' = <<preview_undo(undo_plan)>>
    /\ call_ret' = Append(call_ret, [fn |-> "preview_undo", status |-> "ok"])
    /\ UNCHANGED <<fs, dirs, st_dev, plan, mstatus, mi, merr, renamed_paths, manifest,
                   undo_plan, ustatus, ui, results, prepares, envWrites, call_args>>

PrepareNext == CallPrepareUndoPlan \/ CallPreviewUndo
SpecPrepare == PrepareInit /\ [][PrepareNext /\ UNCHANGED <<clVars, smVars>>]_vars

----------------------------------------------------------------------------
(* One safe_move call *)
MoveSources == {Path(<<"src1">>, "a"), Path(<<"lib", "incoming">>, "a")}
MoveRoots == {LibRoot, <<"elsewhere">>}
\* what the destination and the two hash-suffixed names hold before the call
DstStates == {"free"} \cup Contents
SuffixedStates == {"free", "x", "z"}

SafeMoveInit ==
    /\ \E src \in MoveSources, dst \in DstChoices, allowed_root \in MoveRoots,
          src_state \in {"free"} \cup Contents, dst_state \in DstStates,
          sfx \in [Contents -> SuffixedStates] :
         LET held == [q \in {src, dst} \cup {WithSuffix(dst, Sha[c]) : c \in Contents} |->
                        IF q = src THEN src_state
                        ELSE IF q = dst THEN dst_state
                        ELSE sfx[CHOOSE c \in Contents : WithSuffix(dst, Sha[c]) = q]]
             on_disk == {q \in DOMAIN held : held[q] # "free"}
         IN  /\ fs = [q \in on_disk |-> held[q]]
             /\ dirs = UNION {Ancestors(dirname(q)) : q \in on_disk} \cup {LibRoot}
             /\ call_args = [src |-> src, dst |-> dst, allowed_root |-> allowed_root,
                             fs |-> fs, dirs |-> dirs]
    /\ call_ret = <<>>
    /\ st_dev = <<>> /\ plan = <<>> /\ mstatus = "off" /\ mi = 0 /\ merr = ""
    /\ renamed_paths = <<>> /\ manifest = NoManifest /\ undo_plan = NoUndoPlan
    /\ ustatus = "off" /\ ui = 0 /\ results = <<>> /\ summaries = <<>> /\ prepares = 0
    /\ envWrites = <<>>
    /\ ClusterIdle /\ MasterIdle

CallSafeMove ==
    /\ call_ret = <<>>
    /\ LET moved == safe_move(fs, call_args.src, call_args.dst, call_args.allowed_root)
       IN  /\ fs' = moved.fs
           /\ dirs' = IF path_violation(dirname(call_args.dst), call_args.allowed_root)
                      THEN dirs ELSE ensure_directory(dirs, dirname(call_args.dst))
           /\ call_ret' = <<[fn |-> "safe_move", raised |-> moved.raised,
                             target |-> moved.target]>>
    /\ UNCHANGED <<st_dev, plan, mstatus, mi, merr, renamed_paths, manifest, undo_plan,
                   ustatus, ui, results, summaries, prepares, envWrites, call_args>>

SpecSafeMove == SafeMoveInit /\ [][CallSafeMove /\ UNCHANGED <<clVars, smVars>>]_vars

----------------------------------------------------------------------------
(* One determine_target_path call *)
\* the directory of the file: with and without a YEAR / month pair
TargetSourceDirs ==
    {<<"src">>, <<"src", "2024">>, <<"src", "2024", "misc">>, <<"src", "2024", "2023-05">>,
     <<"src", "2024", "2024-01">>, <<"src", "2024", "2024_02">>, <<"src", "2024", "202403">>,
     <<"src", "2024", "04">>, <<"src", "2024", "misc", "2024", "2024-06">>,
     <<"src", "2024", "2024-13">>, <<"src", "2024", "00">>, <<"src", "2024", "19">>,
     <<"src", "2024", "2024-13", "2024", "2024-01">>,
     <<"src", "2024", "2024-01", "2024", "2024-13">>}
\* exif_datetime: none, January 2024, October 1999
TargetTimes == {NoneInt, Jan2024, 1999 * 12 + 9}

TargetInit ==
    /\ \E d \in TargetSourceDirs, k \in 1..2, dt \in TargetTimes, reliable \in BOOLEAN :
         call_args =
             [file |-> [FileInfo(Path(d, PlanNames[k]), 1, "jpg", NoRes, dt, FALSE, None, FALSE,
                                 None, NoneInt, FALSE)
                          EXCEPT !.timestamp_reliable = reliable],
              base_out |-> PlanDestination]
    /\ call_ret = <<>>
    /\ MergeIdle /\ ClusterIdle /\ MasterIdle

\* determine_target_path(file, base_out, merge_mode="on"); file.review_reason is set
CallDetermineTargetPath ==
    /\ call_ret = <<>>
    /\ LET target == determine_target_path(call_args.file, call_args.base_out)
       IN  /\ call_ret' = <<[fn |-> "determine_target_path", path |-> target.path]>>
           /\ call_args' = [call_args EXCEPT !.file.review_reason = target.review_reason]

SpecTarget == TargetInit /\ [][CallDetermineTargetPath /\ UNCHANGED <<fsVars, clVars, smVars>>]_vars

----------------------------------------------------------------------------
(* Properties of merge execution and undo *)
MoveIndexes == {j \in 1..Len(plan) : IsMove(plan[j])}
\* the move actions execute_merge has applied so far
AppliedMoves ==
    {j \in MoveIndexes :
        \/ j < mi
        \/ j = mi /\ (mstatus = "done" \/ (mstatus = "failed" /\ merr = "hash_mismatch"))}
Untouched == envWrites = <<>> /\ summaries = <<>> /\ ustatus \in {"none", "input_error", "prepared"}

\* C1: a move whose destination holds a file with different content leaves every
\* existing file as it was; the incoming file lands at a name that did not exist,
\* or the move fails and the source stays where it was.
C1_NoDestructiveOverwrite ==
    [][ (mstatus = "running" /\ IsMove(plan[mi])
         /\ exists(fs, plan[mi].src) /\ exists(fs, plan[mi].dst)
         /\ compute_sha256(fs, plan[mi].src) # compute_sha256(fs, plan[mi].dst))
        => LET src == plan[mi].src
               dst == plan[mi].dst
           IN  /\ \A p \in DOMAIN fs \ {src} : p \in DOMAIN fs' /\ fs'[p] = fs[p]
               /\ \/ /\ mstatus' = "failed" /\ merr' = "move_failed"
                     /\ src \in DOMAIN fs' /\ fs'[src] = fs[src]
                  \/ /\ src \notin DOMAIN fs'
                     /\ plan'[mi].dst # dst
                     /\ plan'[mi].dst \notin DOMAIN fs
                     /\ plan'[mi].dst \in DOMAIN fs'
                     /\ fs'[plan'[mi].dst] = fs[src] ]_vars

C1_Witness ==
    /\ renamed_paths # <<>>
    /\ renamed_paths[1][1] \in DOMAIN fs
    /\ renamed_paths[1][2] \in DOMAIN fs
    /\ fs[renamed_paths[1][1]] # fs[renamed_paths[1][2]]

\* C2: after a successful merge and one complete undo of its manifest, with no
\* outside write, every manifest entry has its file back at original_path with
\* the recorded hash and nothing is left at new_path.
C2_RoundTrip ==
    (mstatus = "done" /\ envWrites = <<>> /\ ustatus = "finished" /\ Len(summaries) = 1)
    => \A k \in 1..Len(manifest.entries) :
         LET e == manifest.entries[k]
         IN  /\ exists(fs, e.original_path)
             /\ (e.hash # None => compute_sha256(fs, e.original_path) = e.hash)
             /\ ~exists(fs, e.new_path)

AllStatus(entries, status) == \A k \in 1..Len(entries) : entries[k].status = status

\* C3: an undo run that follows a run which restored every entry changes no file,
\* reports every entry skipped_restored, restore = 0 and already_restored = total.
C3_UndoIdempotent ==
    [][ (ustatus = "running" /\ envWrites = <<>> /\ summaries # <<>>
         /\ AllStatus(summaries[Len(summaries)].entries, "restored"))
        => /\ fs' = fs
           /\ ustatus' # "safety_error"
           /\ (ustatus' = "finished"
               => LET s == summaries'[Len(summaries')]
                  IN  /\ AllStatus(s.entries, "skipped_restored")
                      /\ s.counts.restore = 0
                      /\ s.counts.already_restored = Len(s.entries)) ]_vars

\* C4: execute_merge stops at the first move whose re-computed hash differs from
\* the recorded one; the moves up to and including it stay applied and no later
\* action is applied.
C4_AbortOnFirstMismatch ==
    Untouched =>
      /\ \A j \in AppliedMoves :
           (plan[j].sha256 # None /\ compute_sha256(fs, plan[j].dst) # plan[j].sha256)
           => (mstatus = "failed" /\ merr = "hash_mismatch" /\ mi = j)
      /\ (mstatus = "failed" /\ merr = "hash_mismatch")
         => /\ \A j \in MoveIndexes :
                 IF j <= mi
                 THEN ~exists(fs, plan[j].src) /\ exists(fs, plan[j].dst)
                 ELSE exists(fs, plan[j].src)
            /\ ~manifest.present

C4_Witness ==
    /\ mstatus = "failed" /\ merr = "hash_mismatch"
    /\ mi < Len(plan)
    /\ exists(fs, plan[mi].dst) /\ ~exists(fs, plan[mi].src)
    /\ exists(fs, plan[mi + 1].src)
    /\ Untouched

\* C5: when execute_merge aborts after applying some moves, the persisted source
\* manifest records every applied move.
C5_ManifestOnAbort ==
    (mstatus = "failed" /\ AppliedMoves # {})
    => /\ manifest.present
       /\ \A j \in AppliedMoves :
            \E k \in 1..Len(manifest.entries) :
              /\ manifest.entries[k].original_path = plan[j].src
              /\ manifest.entries[k].new_path = plan[j].dst

NoWriteSincePrepare ==
    \A k \in 1..Len(envWrites) : envWrites[k].run < prepares

\* C6: an entry planned as conflict leaves the occupant of original_path untouched,
\* is removed from new_path and lands under the conflict folder at a name that
\* did not exist, with final status conflict_routed.
C6_ConflictRouting ==
    [][ (ustatus = "running" /\ undo_plan.entries[ui].status = "conflict"
         /\ NoWriteSincePrepare /\ ustatus' # "safety_error")
        => LET e == undo_plan.entries[ui]
           IN  /\ exists(fs', e.original_path)
               /\ fs'[e.original_path] = fs[e.original_path]
               /\ ~exists(fs', e.new_path)
               /\ results'[ui].status = "conflict_routed"
               /\ results'[ui].target_path \notin DOMAIN fs
               /\ results'[ui].target_path \in DOMAIN fs'
               /\ dirname(results'[ui].target_path) =
                    undo_plan.library_root \o <<"REVIEW", "UNDO_CONFLICTS", undo_plan.operation_id>> ]_vars

----------------------------------------------------------------------------
(* Properties of clustering and master selection *)
Partition(cl) ==
    {{cl[k].files[i].path : i \in 1..Len(cl[k].files)} : k \in 1..Len(cl)}
SwapAdjacent(fl, k) ==
    [i \in 1..Len(fl) |-> IF i = k THEN fl[k + 1] ELSE IF i = k + 1 THEN fl[k] ELSE fl[i]]

\* C7: clustering is order-independent: for a fixed sensitivity, exchanging two
\* neighbours of the input list (and hence any permutation of it) gives
\* group_duplicates the same partition of the records into clusters.
C7_OrderIndependent ==
    cphase = "done" =>
        \A k \in 1..(Len(files) - 1) :
            Partition(group_duplicates(SwapAdjacent(files, k), sensitivity)) = Partition(clusters)

Discriminated(a, b) == is_better(a, b).better \/ is_better(b, a).better
Reordered(members, p) == [k \in 1..Len(members) |-> members[p[k]]]

\* C8: master selection is a strict total order: for a cluster of three files
\* in which every pair is told apart by some rule, select_master returns the
\* same file for every ordering of the member list.
C8_StrictTotalOrder ==
    (/\ master # <<>> /\ Len(cluster) = 3
     /\ \A i, j \in 1..3 : i < j => Discriminated(cluster[i], cluster[j]))
    => \A p \in Permutations(1..3) :
          select_master(Reordered(cluster, p)).path = master[1].path

PathsOf(fl) == [i \in 1..Len(fl) |-> fl[i].path]

\* C9: every returned cluster has exactly one master, the master is a member,
\* the redundant list is the members minus the master, and a file alone in
\* its cluster is its own master with nothing redundant.
C9_OneMaster ==
    cphase = "done" =>
        \A k \in 1..Len(clusters) :
            LET c == clusters[k]
            IN  /\ Cardinality({i \in 1..Len(c.files) : c.files[i].path = c.master.path}) = 1
                /\ PathsOf(c.redundant)
                     = SelectSeq(PathsOf(c.files), LAMBDA q : q # c.master.path)
                /\ Len(c.files) = 1 => (c.master.path = c.files[1].path /\ c.redundant = <<>>)
C9_Witness ==
    /\ cphase = "done"
    /\ \E k \in 1..Len(clusters) : Len(clusters[k].files) = 2 /\ Len(clusters[k].redundant) = 1
    /\ \E k \in 1..Len(clusters) : Len(clusters[k].files) = 1

SameSet(u, a, b) == uf_root(u.parent, a) = uf_root(u.parent, b)
SameCluster(a, b) ==
    \E k \in 1..Len(clusters) : {a, b} \subseteq {clusters[k].files[i].path : i \in 1..Len(clusters[k].files)}

\* C10: two records with the same non-empty content hash end in the same
\* cluster whatever their perceptual hashes and the sensitivity; a record
\* without a content hash is united with nothing by the exact phase.
C10_ExactHashTogether ==
    /\ cphase = "exact" =>
         \A i, j \in 1..Len(files) :
            (i # j /\ files[i].sha256 = None) => ~SameSet(uf, files[i].path, files[j].path)
    /\ cphase = "done" =>
         \A i, j \in 1..Len(files) :
            (files[i].sha256 # None /\ files[i].sha256 = files[j].sha256)
               => SameCluster(files[i].path, files[j].path)
C10_Witness ==
    /\ cphase = "done" /\ sensitivity = "conservative"
    /\ \E i, j, k \in 1..Len(files) :
         /\ files[i].sha256 = "A" /\ files[j].sha256 = "A"
         /\ files[i].phash = 0 /\ files[j].phash = 2047
         /\ SameCluster(files[i].path, files[j].path)
         /\ files[k].sha256 = None /\ files[k].phash = NoneInt
         /\ ~SameCluster(files[i].path, files[k].path)

----------------------------------------------------------------------------
(* Properties of single calls *)
Area(res) == res[1] * res[2]
WeakBandChecks(a, b) ==
    /\ a.resolution # NoRes /\ b.resolution # NoRes
    /\ Min2(Area(a.resolution), Area(b.resolution)) > 0
    /\ 10 * Max2(Area(a.resolution), Area(b.resolution))
         <= 13 * Min2(Area(a.resolution), Area(b.resolution))
    /\ a.exif_datetime # NoneInt /\ b.exif_datetime # NoneInt
    /\ Abs(a.exif_datetime - b.exif_datetime) <= 60
    /\ (a.exif_camera # None /\ b.exif_camera # None) => a.exif_camera = b.exif_camera

\* C11: are_near_duplicates rejects when a perceptual hash is missing, accepts
\* at distance <= strong, rejects at distance > weak, and in between accepts
\* exactly when both resolutions are present with area ratio <= 1.3, both
\* capture times are present at most 60 s apart, and the cameras agree when
\* both are known; thresholds are (2,5), (3,7), (4,10).
C11_NearDupTable ==
    call_ret # <<>> =>
        LET a == call_args.a
            b == call_args.b
            d == phash_distance(a.phash, b.phash)
            t == CASE call_args.sensitivity = "conservative" -> <<2, 5>>
                   [] call_args.sensitivity = "balanced" -> <<3, 7>>
                   [] call_args.sensitivity = "aggressive" -> <<4, 10>>
        IN  call_ret[1] = IF a.phash = NoneInt \/ b.phash = NoneInt THEN FALSE
                          ELSE IF d <= t[1] THEN TRUE
                          ELSE IF d > t[2] THEN FALSE
                          ELSE WeakBandChecks(a, b)
C11_Witness ==
    /\ call_ret = <<TRUE>> /\ call_args.sensitivity = "conservative"
    /\ phash_distance(call_args.a.phash, call_args.b.phash) = 4
    /\ call_args.b.resolution = <<13, 10>> /\ call_args.b.exif_datetime = 60
    /\ call_args.a.exif_camera = "c1" /\ call_args.b.exif_camera = "c1"

----------------------------------------------------------------------------
(* Properties of planning *)
PlanReturned ==
    /\ call_ret # <<>> /\ call_ret[1].fn = "build_merge_plan"
    /\ call_ret[1].result.status = "ok"
ReturnedPlan == call_ret[1].result.plan[1]
RECURSIVE SizeOfIndexes(_, _)
SizeOfIndexes(acts, S) ==
    IF S = {} THEN 0
    ELSE LET k == CHOOSE x \in S : TRUE IN acts[k].size + SizeOfIndexes(acts, S \ {k})
IndexesOfType(acts, types) == {k \in 1..Len(acts) : acts[k].type \in types}

\* C12: in every plan build_merge_plan returns, required_space is the sum of
\* the sizes of the MOVE_MASTER and MOVE_TO_QUARANTINE_EXACT actions of the
\* plan; the sizes of its MARK_NEAR_DUPLICATE actions are not counted.
C12_RequiredSpace ==
    PlanReturned =>
        ReturnedPlan.required_space =
            SizeOfIndexes(ReturnedPlan.actions,
                          IndexesOfType(ReturnedPlan.actions,
                                        {"MOVE_MASTER", "MOVE_TO_QUARANTINE_EXACT"}))

\* a returned plan with a 10-byte master, a 5-byte quarantined duplicate and a
\* 3-byte near-duplicate mark, whose required_space is 15
C12_Witness ==
    /\ PlanReturned
    /\ ReturnedPlan.required_space = 15
    /\ \E i, j, k \in 1..Len(ReturnedPlan.actions) :
         /\ ReturnedPlan.actions[i].type = "MOVE_MASTER" /\ ReturnedPlan.actions[i].size = 10
         /\ ReturnedPlan.actions[j].type = "MOVE_TO_QUARANTINE_EXACT"
         /\ ReturnedPlan.actions[j].size = 5
         /\ ReturnedPlan.actions[k].type = "MARK_NEAR_DUPLICATE"
         /\ ReturnedPlan.actions[k].size = 3
    /\ Cardinality(IndexesOfType(ReturnedPlan.actions,
                                 {"MOVE_MASTER", "MOVE_TO_QUARANTINE_EXACT",
                                  "MARK_NEAR_DUPLICATE"})) = 3

PlanCalled == call_ret # <<>> /\ call_ret[1].fn = "build_merge_plan"
\* the bytes the planned moves of the call carry, from its file actions
RequiredOfCall ==
    LET acts == create_file_actions(call_args.files, call_args.clusters, PlanDestination)
    IN  SizeOfIndexes(acts, IndexesOfType(acts, {"MOVE_MASTER", "MOVE_TO_QUARANTINE_EXACT"}))

\* C13: on a destination that passes validation, build_merge_plan ends in
\* StorageError with no plan exactly when required_space > destination_free,
\* and returns a plan whenever required_space <= destination_free (equality
\* included); in either case nothing on the filesystem has changed.
C13_StorageGate ==
    (PlanCalled /\ validate_destination(call_args.tree) = "ok") =>
        /\ RequiredOfCall > call_args.destination_free
             => call_ret[1].result = [status |-> "StorageError", plan |-> NoPlan]
        /\ RequiredOfCall <= call_args.destination_free
             => /\ call_ret[1].result.status = "ok"
                /\ Len(call_ret[1].result.plan) = 1
                /\ call_ret[1].result.plan[1].required_space = RequiredOfCall
                /\ call_ret[1].result.plan[1].destination_free = call_args.destination_free
        /\ MergeIdle

\* a call that needs 15 bytes with 14 free and ended in StorageError
C13_Witness ==
    /\ PlanCalled
    /\ RequiredOfCall = 15 /\ call_args.destination_free = 14
    /\ call_ret[1].result.status = "StorageError"

\* every entry is a real year directory holding only real month directories of that year
Chronological(t) ==
    \A e \in DOMAIN t.entries :
        /\ t.entries[e] = "dir" /\ is_year(e)
        /\ \A m \in DOMAIN t.months : t.months[m] = "dir" /\ is_year_month(m, e)

\* C14: destination validation accepts a destination only if it does not
\* exist, is an empty directory, or holds only real year directories whose
\* entries are all real month directories of that year.
C14_OnlyChronological ==
    (call_ret # <<>> /\ call_ret[1].fn = "validate_destination"
       /\ call_ret[1].result.status = "ok")
        => \/ call_args.tree.kind = "absent"
           \/ call_args.tree.kind = "dir" /\ Chronological(call_args.tree)

ActionsFor(acts, path, type) ==
    {k \in 1..Len(acts) : acts[k].type = type /\ acts[k].src = path}
\* the member holds a content hash and it is the master's
ExactDuplicateOf(f, m) == f.sha256 # None /\ f.sha256 = m.sha256

\* C15: in every returned plan, a non-master member of a cluster is given a
\* MOVE_TO_QUARANTINE_EXACT action (to QUARANTINE_EXACT/<basename> under the
\* destination) only if its content hash is the master's; every other
\* non-master member is given a MARK_NEAR_DUPLICATE action and no move.
C15_QuarantineOnlyExact ==
    PlanReturned =>
        \A c \in 1..Len(call_args.clusters) :
            LET m == cluster_master(call_args.clusters[c])
                members == call_args.clusters[c].files
            IN  \A i \in 1..Len(members) :
                  members[i].path # m.path =>
                    LET f == members[i]
                        quarantined == ActionsFor(ReturnedPlan.actions, f.path,
                                                  "MOVE_TO_QUARANTINE_EXACT")
                        marked == ActionsFor(ReturnedPlan.actions, f.path, "MARK_NEAR_DUPLICATE")
                    IN  /\ quarantined # {} => ExactDuplicateOf(f, m)
                        /\ \A k \in quarantined :
                             ReturnedPlan.actions[k].dst =
                                 Path(PlanDestination \o <<"QUARANTINE_EXACT">>, f.path.stem)
                        /\ ~ExactDuplicateOf(f, m) =>
                             /\ marked # {}
                             /\ ActionsFor(ReturnedPlan.actions, f.path, "MOVE_MASTER") = {}

----------------------------------------------------------------------------
(* Properties of undo planning *)
Prepared == call_ret # <<>> /\ call_ret[1].fn = "prepare_undo_plan"
LibraryUntouched == fs = call_args.fs /\ dirs = call_args.dirs

\* C16: prepare_undo_plan ends in UndoInputError, leaving every file and
\* directory as it was, whenever the batch id handed in differs from the one
\* the manifest records, and also when the manifest file is missing, is not
\* valid JSON, is not an object, has no batch_id, or has entries that are not
\* a list.
C16_InputErrorBeforeAnyMove ==
    Prepared =>
        /\ (\/ call_args.operation_id # manifest.batch_id
            \/ ~manifest.present
            \/ manifest.form # "dict"
            \/ manifest.batch_id = None)
             => /\ call_ret[1].status = "UndoInputError"
                /\ undo_plan = NoUndoPlan
        /\ LibraryUntouched

\* a sound manifest on disk, asked for under another batch id
C16_Witness ==
    /\ Prepared
    /\ manifest.present /\ manifest.form = "dict" /\ manifest.batch_id # None
    /\ \E k \in 1..Len(manifest.entries) : manifest.entries[k].new_path \in DOMAIN fs
    /\ call_args.operation_id # manifest.batch_id
    /\ call_ret[1].status = "UndoInputError"

PlannedEntry(k) == undo_plan.entries[k]
OnDisk(path) == path \in DOMAIN call_args.fs
\* the status and target the classification table gives a manifest entry
TableRow(entry, conflict_root) ==
    CASE entry.original_path = NoPath \/ entry.new_path = NoPath
           -> <<"skipped_invalid", NoPath>>
      [] OTHER ->
           CASE OnDisk(entry.new_path) /\ ~OnDisk(entry.original_path)
                  -> <<"restore", entry.original_path>>
             [] OnDisk(entry.new_path) /\ OnDisk(entry.original_path)
                  -> <<"conflict", Path(conflict_root, entry.new_path.stem)>>
             [] ~OnDisk(entry.new_path) /\ OnDisk(entry.original_path)
                  /\ Sha[call_args.fs[entry.original_path]] = entry.hash
                  -> <<"skipped_restored", NoPath>>
             [] ~OnDisk(entry.new_path) /\ OnDisk(entry.original_path)
                  /\ Sha[call_args.fs[entry.original_path]] # entry.hash
                  -> <<"conflict_missing_source", NoPath>>
             [] OTHER -> <<"skipped_missing", NoPath>>

\* C17: a plan returned by prepare_undo_plan holds one entry per manifest
\* entry, in order, whose status and target are those of the table: unset
\* path -> skipped_invalid; new present, original free -> restore to the
\* original path; both present -> conflict under
\* <library_root>/REVIEW/UNDO_CONFLICTS/<batch_id>/; new absent and original
\* present -> skipped_restored if its hash is the recorded one, otherwise
\* conflict_missing_source; neither present -> skipped_missing.
C17_ClassificationTable ==
    (Prepared /\ call_ret[1].status = "ok") =>
        /\ Len(undo_plan.entries) = Len(manifest.entries)
        /\ \A k \in 1..Len(manifest.entries) :
             LET row == TableRow(manifest.entries[k],
                                 undo_plan.library_root
                                    \o <<"REVIEW", "UNDO_CONFLICTS", manifest.batch_id>>)
             IN  /\ PlannedEntry(k).status = row[1]
                 /\ PlannedEntry(k).target_path = row[2]
                 /\ PlannedEntry(k).original_path = manifest.entries[k].original_path
                 /\ PlannedEntry(k).new_path = manifest.entries[k].new_path

\* a plan that holds a conflict entry and a skipped_restored entry
C17_Witness ==
    /\ Prepared /\ call_ret[1].status = "ok"
    /\ \E i, j \in 1..Len(undo_plan.entries) :
         /\ PlannedEntry(i).status = "conflict"
         /\ PlannedEntry(i).target_path.dir = <<"lib", "REVIEW", "UNDO_CONFLICTS", manifest.batch_id>>
         /\ PlannedEntry(j).status = "skipped_restored"

----------------------------------------------------------------------------
(* Properties of undo execution *)
\* execute_undo is at a restore or conflict entry whose file at new_path does
\* not hash to the recorded value
AtMismatchedEntry ==
    /\ ustatus = "running"
    /\ undo_plan.entries[ui].status \in {"restore", "conflict"}
    /\ exists(fs, undo_plan.entries[ui].new_path)
    /\ undo_plan.entries[ui].hash # None
    /\ compute_sha256(fs, undo_plan.entries[ui].new_path) # undo_plan.entries[ui].hash

\* C18: when execute_undo reaches a restore or conflict entry with a recorded
\* hash and the file at new_path hashes to something else, it raises
\* UndoSafetyError; that file is still at new_path with the same bytes, and
\* nothing has appeared at original_path.
C18_RehashBeforeMove ==
    [][ AtMismatchedEntry
        => LET e == undo_plan.entries[ui]
           IN  /\ ustatus' = "safety_error"
               /\ exists(fs', e.new_path) /\ fs'[e.new_path] = fs[e.new_path]
               /\ exists(fs', e.original_path) <=> exists(fs, e.original_path)
               /\ fs' = fs ]_vars

\* execute_undo stopped at a restore entry on the same filesystem whose file at
\* new_path does not hash to the recorded value
C18_Witness ==
    /\ ustatus = "safety_error"
    /\ undo_plan.entries[ui].status = "restore"
    /\ same_filesystem(undo_plan.entries[ui].new_path, undo_plan.entries[ui].original_path)
    /\ undo_plan.entries[ui].hash # None
    /\ exists(fs, undo_plan.entries[ui].new_path)
    /\ compute_sha256(fs, undo_plan.entries[ui].new_path) # undo_plan.entries[ui].hash
    /\ ~exists(fs, undo_plan.entries[ui].original_path)

----------------------------------------------------------------------------
(* Properties of the undo preview *)
Previewed == Len(call_ret) = 2 /\ call_ret[2].fn = "preview_undo"
Relabelled(status) ==
    IF status = "restore" THEN "would_restore"
    ELSE IF status = "conflict" THEN "would_conflict" ELSE status
CountOf(entries, statuses) ==
    Cardinality({k \in 1..Len(entries) : entries[k].status \in statuses})

\* C19: preview_undo leaves the files, the directories and the plan it was
\* given as they were; its summary lists the plan's entries in order, restore
\* relabelled would_restore, conflict relabelled would_conflict and every other
\* status and field kept, with counts computed from the relabelled entries.
C19_PreviewRelabels ==
    Previewed =>
        LET summary == summaries[1]
        IN  /\ LibraryUntouched
            /\ undo_plan = prepare_undo_plan(fs, manifest, call_args.operation_id).plan
            /\ Len(summary.entries) = Len(undo_plan.entries)
            /\ \A k \in 1..Len(undo_plan.entries) :
                 summary.entries[k] =
                     [undo_plan.entries[k] EXCEPT !.status = Relabelled(@)]
            /\ summary.counts.total = Len(undo_plan.entries)
            /\ summary.counts.restore = CountOf(undo_plan.entries, {"restore"})
            /\ summary.counts.conflict =
                   CountOf(undo_plan.entries, {"conflict", "conflict_missing_source"})
            /\ summary.counts.already_restored = CountOf(undo_plan.entries, {"skipped_restored"})
            /\ summary.counts.missing =
                   CountOf(undo_plan.entries, {"skipped_missing", "skipped_invalid"})
            /\ summary.counts.skipped =
                   summary.counts.already_restored + summary.counts.missing
            /\ summary.operation_id = undo_plan.operation_id /\ summary.mode = "preview"

\* a preview of a plan that holds a restore entry and a conflict entry
C19_Witness ==
    /\ Previewed
    /\ \E i, j \in 1..Len(undo_plan.entries) :
         /\ undo_plan.entries[i].status = "restore"
         /\ summaries[1].entries[i].status = "would_restore"
         /\ undo_plan.entries[j].status = "conflict"
         /\ summaries[1].entries[j].status = "would_conflict"

----------------------------------------------------------------------------
(* Properties of safe_move *)
\* the filesystem before the call with the source's bytes taken to target
MovedTo(before, src, target) ==
    [q \in (DOMAIN before \ {src}) \cup {target} |->
        IF q = target THEN before[src] ELSE before[q]]

\* C20: for an existing source and a destination inside the allowed root:
\* destination free -> the file is at the destination; destination holding
\* the source's content -> the file is at the destination and the source path
\* is gone; destination holding other content -> the file is at
\* <stem>-<source hash><ext> and the destination is as it was; destination
\* and that suffixed name both taken -> an error is raised and source,
\* destination and suffixed file are as they were.
C20_SafeMoveCases ==
    (/\ call_ret # <<>> /\ call_ret[1].fn = "safe_move"
     /\ call_args.src \in DOMAIN call_args.fs
     /\ IsPrefix(call_args.allowed_root, dirname(call_args.dst)))
    => LET before == call_args.fs
           src == call_args.src
           dst == call_args.dst
           suffixed == [dst EXCEPT !.sfx = Append(@, Sha[before[src]])]
           ret == call_ret[1]
       IN  CASE dst \notin DOMAIN before
                  -> ~ret.raised /\ ret.target = dst /\ fs = MovedTo(before, src, dst)
             [] dst \in DOMAIN before /\ before[dst] = before[src]
                  -> /\ ~ret.raised /\ ret.target = dst
                     /\ src \notin DOMAIN fs
                     /\ fs = MovedTo(before, src, dst)
             [] dst \in DOMAIN before /\ before[dst] # before[src]
                /\ suffixed \notin DOMAIN before
                  -> /\ ~ret.raised /\ ret.target = suffixed
                     /\ fs = MovedTo(before, src, suffixed)
                     /\ fs[dst] = before[dst] /\ src \notin DOMAIN fs
             [] OTHER -> ret.raised /\ fs = before

\* a call that met a destination with other content and a taken suffixed name
C20_Witness ==
    /\ call_ret # <<>> /\ call_ret[1].fn = "safe_move"
    /\ call_args.src \in DOMAIN call_args.fs /\ call_args.dst \in DOMAIN call_args.fs
    /\ call_args.fs[call_args.dst] # call_args.fs[call_args.src]
    /\ WithSuffix(call_args.dst, Sha[call_args.fs[call_args.src]]) \in DOMAIN call_args.fs
    /\ call_ret[1].raised

SafeMoved == call_ret # <<>> /\ call_ret[1].fn = "safe_move"
\* the destination holds other bytes and the hash-suffixed name is taken too
DoubleCollision ==
    /\ call_args.src \in DOMAIN call_args.fs /\ call_args.dst \in DOMAIN call_args.fs
    /\ IsPrefix(call_args.allowed_root, dirname(call_args.dst))
    /\ call_args.fs[call_args.dst] # call_args.fs[call_args.src]
    /\ WithSuffix(call_args.dst, Sha[call_args.fs[call_args.src]]) \in DOMAIN call_args.fs

\* C21: when the destination holds other bytes and <stem>-<src_hash><ext> is
\* taken as well, safe_move stores the file under the first free numbered name
\* (-1, -2, ... up to 999) and raises the unresolvable-collision error only
\* when all of them are taken.
C21_NumberedRetries ==
    (SafeMoved /\ DoubleCollision) =>
        LET suffixed == WithSuffix(call_args.dst, Sha[call_args.fs[call_args.src]])
            idx == FirstFreeNumbered(call_args.fs, suffixed, 1)
        IN  IF idx = 0 THEN call_ret[1].raised /\ fs = call_args.fs
            ELSE /\ ~call_ret[1].raised
                 /\ call_ret[1].target = WithSuffix(suffixed, ToString(idx))
                 /\ fs = MovedTo(call_args.fs, call_args.src, call_ret[1].target)

----------------------------------------------------------------------------
(* Properties of chronology resolution *)
TargetComputed == call_ret # <<>> /\ call_ret[1].fn = "determine_target_path"
\* the month a folder name under the year folder 2024 stands for
MonthOfSegment ==
    [s \in {"2024-01", "2024_02", "202403", "04", "2024-06"} |->
        CASE s = "2024-01" -> 1 [] s = "2024_02" -> 2 [] s = "202403" -> 3
          [] s = "04" -> 4 [] OTHER -> 6]
MonthText == [m \in 1..6 |-> CASE m = 1 -> "2024-01" [] m = 2 -> "2024-02" [] m = 3 -> "2024-03"
                               [] m = 4 -> "2024-04" [] m = 5 -> "2024-05" [] OTHER -> "2024-06"]
OutOfRangeSegments == {"2024-13", "00", "19"}
\* positions of the directory at which a year folder is followed by a month
\* folder, and by a folder with a month out of range
ValidPairs(d) ==
    {i \in 1..(Len(d) - 1) : d[i] = "2024" /\ d[i + 1] \in DOMAIN MonthOfSegment}
InvalidPairs(d) ==
    {i \in 1..(Len(d) - 1) : d[i] = "2024" /\ d[i + 1] \in OutOfRangeSegments}
FirstOf(S) == CHOOSE i \in S : \A j \in S : i <= j
\* the first pair of the path is a valid one
ChronologyInPath(d) ==
    /\ ValidPairs(d) # {}
    /\ \A j \in InvalidPairs(d) : FirstOf(ValidPairs(d)) < j
ReviewPath == Path(PlanDestination \o <<"REVIEW">>, call_args.file.path.stem)

\* C22: a file whose path holds a valid YEAR/YEAR-MONTH (or YEAR/MONTH) pair is
\* planned to <root>/<year>/<year>-<MM>/<basename> whatever its EXIF capture
\* time is (other, missing or unreliable); a pair with a month out of range
\* sends it to REVIEW/<basename> with reason invalid_chronology.
C22_ChronologyAuthoritative ==
    TargetComputed =>
        LET d == call_args.file.path.dir
        IN  /\ ChronologyInPath(d) =>
                 /\ call_ret[1].path =
                        Path(PlanDestination
                               \o <<"2024", MonthText[MonthOfSegment[d[FirstOf(ValidPairs(d)) + 1]]]>>,
                             call_args.file.path.stem)
                 /\ call_args.file.review_reason = None
            /\ (InvalidPairs(d) # {} /\ ~ChronologyInPath(d)) =>
                 /\ call_ret[1].path = ReviewPath
                 /\ call_args.file.review_reason = "invalid_chronology"

\* C23: a file without EXIF capture time goes to <root>/REVIEW/<basename> with
\* reason missing_exif_timestamp, and a file with an unreliable timestamp to
\* REVIEW with timestamp_unreliable, also when its path holds a valid
\* YEAR/YEAR-MONTH pair (a pair with a month out of range comes first:
\* invalid_chronology).
C23_MissingExifToReview ==
    (TargetComputed /\ ~(InvalidPairs(call_args.file.path.dir) # {}
                         /\ ~ChronologyInPath(call_args.file.path.dir))) =>
        /\ call_args.file.exif_datetime = NoneInt =>
             /\ call_ret[1].path = ReviewPath
             /\ call_args.file.review_reason = "missing_exif_timestamp"
        /\ (call_args.file.exif_datetime # NoneInt /\ ~call_args.file.timestamp_reliable) =>
             /\ call_ret[1].path = ReviewPath
             /\ call_args.file.review_reason = "timestamp_unreliable"

\* a file under 2024/2024-01 without EXIF capture time, sent to REVIEW
C23_Witness ==
    /\ TargetComputed
    /\ call_args.file.path.dir = <<"src", "2024", "2024-01">>
    /\ call_args.file.exif_datetime = NoneInt
    /\ call_ret[1].path = ReviewPath

\* C23 as worded: every file without EXIF capture time is sent to REVIEW with
\* reason missing_exif_timestamp, every file with an unreliable timestamp with
\* reason timestamp_unreliable, whatever its path holds.
C23_AlwaysExifReason ==
    TargetComputed =>
        /\ call_args.file.exif_datetime = NoneInt =>
             /\ call_ret[1].path = ReviewPath
             /\ call_args.file.review_reason = "missing_exif_timestamp"
        /\ (call_args.file.exif_datetime # NoneInt /\ ~call_args.file.timestamp_reliable) =>
             /\ call_ret[1].path = ReviewPath
             /\ call_args.file.review_reason = "timestamp_unreliable"

----------------------------------------------------------------------------
(* Properties of planning errors *)
\* C24: when the destination fails validation, the error build_merge_plan
\* raises to its caller is one the validator raises on that destination: it
\* names the segment that failed and says why.
C24_ValidatorErrorUnchanged ==
    (PlanCalled /\ validate_destination(call_args.tree) # "ok") =>
        /\ call_ret[1].result.status = "MergePlanError"
        /\ call_ret[1].error \in validation_errors(call_args.tree)

\* whenever validation fails the validator has an error to raise
ValidationErrorsExist ==
    validate_destination(call_args.tree) # "ok" <=> validation_errors(call_args.tree) # {}

----------------------------------------------------------------------------
(* Properties of master selection among formats *)
\* the members as they were handed to select_master
Members == [k \in 1..Len(cluster) |-> [cluster[k] EXCEPT !.selection_reason = None]]
IsHeic(f) == Lower(f.format) = "heic"
IsJpeg(f) == Lower(f.format) \in {"jpg", "jpeg"}
\* strictly more of the four EXIF fields, or as many with GPS where the other has none
MetadataAdvantage(a, b) ==
    \/ ExifCount(a) > ExifCount(b)
    \/ ExifCount(a) = ExifCount(b) /\ a.exif_gps /\ ~b.exif_gps
HeicJpegPair ==
    /\ master # <<>> /\ Len(cluster) = 2
    /\ ~cluster[1].is_raw /\ ~cluster[2].is_raw
    /\ cluster[1].resolution = cluster[2].resolution
    /\ \/ IsHeic(cluster[1]) /\ IsJpeg(cluster[2])
       \/ IsJpeg(cluster[1]) /\ IsHeic(cluster[2])

\* C25: of a HEIC and a JPEG file of equal resolution, neither RAW, the later
\* one replaces the earlier one as master only if it has the metadata
\* advantage; without it the earlier one stays, whatever the file sizes.
C25_FormatNeedsMetadataAdvantage ==
    HeicJpegPair =>
        (master[1].path = cluster[2].path => MetadataAdvantage(cluster[2], cluster[1]))

\* the reason of the last comparison, in member order, that replaced the incumbent
RECURSIVE ReasonOfLastReplacement(_, _, _, _)
ReasonOfLastReplacement(members, k, incumbent, reason) ==
    IF k > Len(members) THEN reason
    ELSE LET c == is_better(members[k], incumbent)
         IN  IF c.better THEN ReasonOfLastReplacement(members, k + 1, members[k], c.reason)
             ELSE ReasonOfLastReplacement(members, k + 1, incumbent, reason)

\* C26: over a cluster of more than two files, the selection_reason on the
\* returned master is the reason of the last comparison that replaced the
\* incumbent; comparisons that kept the incumbent leave it as it was.
C26_ReasonOfLastChange ==
    (master # <<>> /\ Len(cluster) > 2) =>
        master[1].selection_reason =
            ReasonOfLastReplacement(Members, 2, Members[1], None)

----------------------------------------------------------------------------
(* Properties of an undo that stops *)
MovedStatuses == {"restored", "conflict_routed"}
\* execute_undo raises UndoSafetyError in this step
UndoRaises == ustatus = "running" /\ ustatus' = "safety_error"

\* C27: when execute_undo raises UndoSafetyError at entry k for a reason found
\* before the move, the file of entry k is still at its new_path, no entry
\* after k has been processed or moved, and the file of every earlier entry
\* that was moved is still at its undo target with its bytes.
C27_RaiseKeepsMoves ==
    [][ UndoRaises
        => /\ exists(fs', undo_plan.entries[ui].new_path)
           /\ fs'[undo_plan.entries[ui].new_path] = fs[undo_plan.entries[ui].new_path]
           /\ Len(results') = ui - 1
           /\ \A j \in (ui + 1)..Len(undo_plan.entries) :
                /\ exists(fs', undo_plan.entries[j].new_path)
                     <=> exists(fs, undo_plan.entries[j].new_path)
                /\ exists(fs', undo_plan.entries[j].original_path)
                     <=> exists(fs, undo_plan.entries[j].original_path)
           /\ \A j \in 1..(ui - 1) :
                results'[j].status \in MovedStatuses
                  => /\ exists(fs', results'[j].target_path)
                     /\ fs'[results'[j].target_path] = fs[results'[j].target_path]
                     /\ ~exists(fs', results'[j].new_path) ]_vars

\* execute_undo stopped at its second entry after it had moved the first
C27_Witness ==
    /\ ustatus = "safety_error"
    /\ ui = 2
    /\ results[1].status \in MovedStatuses
    /\ exists(fs, results[1].target_path)
    /\ exists(fs, undo_plan.entries[2].new_path)

----------------------------------------------------------------------------
(* Properties of the paths execute_undo writes to *)
\* the target execute_undo computes first for the entry it is at
FirstTarget ==
    IF undo_plan.entries[ui].status = "restore" THEN undo_plan.entries[ui].original_path
    ELSE join(undo_plan.conflict_root, undo_plan.entries[ui].new_path)
\* execute_undo moves the file of the entry it is at in this step
UndoMoves ==
    /\ ustatus = "running"
    /\ undo_plan.entries[ui].status \in {"restore", "conflict"}
    /\ exists(fs, undo_plan.entries[ui].new_path)
    /\ ustatus' # "safety_error"

\* C28: execute_undo never overwrites or removes a file at a path it writes
\* to: the path it moves a file to did not exist, every other file keeps its
\* bytes, and when the target computed first exists at execution time the
\* file goes to the conflict folder and is reported conflict_routed.
C28_UndoNeverOverwrites ==
    [][ UndoMoves
        => /\ results'[ui].target_path \notin DOMAIN fs
           /\ results'[ui].target_path \in DOMAIN fs'
           /\ fs'[results'[ui].target_path] = fs[undo_plan.entries[ui].new_path]
           /\ \A p \in DOMAIN fs \ {undo_plan.entries[ui].new_path} :
                p \in DOMAIN fs' /\ fs'[p] = fs[p]
           /\ exists(fs, FirstTarget)
                => /\ results'[ui].status = "conflict_routed"
                   /\ dirname(results'[ui].target_path) = undo_plan.conflict_root
           /\ ~exists(fs, FirstTarget)
                => /\ results'[ui].target_path = FirstTarget
                   /\ results'[ui].status =
                        IF undo_plan.entries[ui].status = "restore"
                        THEN "restored" ELSE "conflict_routed" ]_vars

\* a restore entry whose original path was free at prepare time and written
\* to before execute_undo ran: the file went to the conflict folder and the
\* occupant has the bytes that were written
C28_Witness ==
    /\ ustatus \in {"running", "finished"}
    /\ \E j \in 1..Len(results), w \in 1..Len(envWrites) :
         /\ undo_plan.entries[j].status = "restore"
         /\ results[j].status = "conflict_routed"
         /\ envWrites[w].at = "prepared"
         /\ envWrites[w].path = undo_plan.entries[j].original_path
         /\ exists(fs, envWrites[w].path)
         /\ fs[envWrites[w].path] = envWrites[w].content
         /\ exists(fs, results[j].target_path)
         /\ dirname(results[j].target_path) = undo_plan.conflict_root

----------------------------------------------------------------------------
(* Properties of the destination after a merge *)
\* os.listdir(d) with the kind of each entry: the directories of ds and the
\* files of fsys directly under d
listdir(fsys, ds, d) ==
    LET subdirs == {Last(x) : x \in {y \in ds : Len(y) = Len(d) + 1 /\ IsPrefix(d, y)}}
        names == {p.stem : p \in {q \in DOMAIN fsys : q.dir = d}}
    IN  [n \in subdirs \cup names |-> IF n \in subdirs THEN "dir" ELSE "file"]
\* the destination as _validate_destination reads it from the disk
destination_tree(fsys, ds, destination) ==
    IF destination \notin ds
    THEN [kind |-> "absent", entries |-> NoEntries, months |-> NoEntries]
    ELSE [kind |-> "dir",
          entries |-> listdir(fsys, ds, destination),
          months |-> listdir(fsys, ds, destination \o <<"2024">>)]
\* a plan of the shape build_merge_plan gives: every quarantined file is the
\* exact duplicate of a master the same plan moves
BuiltPlan ==
    \A k \in 1..Len(plan) :
        plan[k].type = "MOVE_TO_QUARANTINE_EXACT"
          => \E j \in 1..Len(plan) :
                plan[j].type = "MOVE_MASTER" /\ plan[j].sha256 = plan[k].sha256
\* execute_merge has returned and nothing has run or written since
MergeJustDone == mstatus = "done" /\ ustatus = "none" /\ envWrites = <<>>

\* C29: after execute_merge has completed a plan of build_merge_plan, the
\* destination tree it left (year and year-month folders, REVIEW and
\* QUARANTINE_EXACT folders) is accepted by validate_destination.
C29_MergedDestinationValid ==
    (MergeJustDone /\ BuiltPlan)
      => validate_destination(destination_tree(fs, dirs, LibRoot)) = "ok"

----------------------------------------------------------------------------
(* Properties of the files that were in the destination before the merge *)
\* the files under the destination root when execute_merge was called
PreExistingFiles == {p \in DOMAIN call_args.fs : IsPrefix(LibRoot, p.dir)}
\* the merge completed and one execute_undo of its manifest ran to its end,
\* with no outside write
MergedAndUndone ==
    mstatus = "done" /\ ustatus = "finished" /\ envWrites = <<>> /\ Len(summaries) = 1

\* C30: a file that was under the destination root before execute_merge
\* started is at the same path with the same bytes after the merge and a
\* complete undo of its manifest, also when a moved file of identical content
\* collided with it.
C30_PreExistingSurvives ==
    MergedAndUndone
      => \A p \in PreExistingFiles : exists(fs, p) /\ fs[p] = call_args.fs[p]

====
